---- MODULE Spec2Model ----
(***************************************************************************)
(* Submission matching engine of trainee-tracker (src/src/course.rs).      *)
(*                                                                         *)
(* Strings are sequences of one-character strings.  The character "#3"     *)
(* stands for a decimal digit outside ASCII (U+0663): the regex class \d   *)
(* matches it, usize::from_str rejects it.                                 *)
(***************************************************************************)
EXTENDS Integers, Sequences, FiniteSets, TLC

\* ------------------------------------------------------------------------
\* Bounds of the model
\* ------------------------------------------------------------------------
MaxSprints == 2
MaxExpected == 2
MaxPrs == 2
Today == 1

\* ------------------------------------------------------------------------
\* Program constants
\* ------------------------------------------------------------------------
MaxSprintNumber == 20

\* ------------------------------------------------------------------------
\* Strings
\* ------------------------------------------------------------------------
Uppers == <<"A","B","C","D","E","F","G","H","I","J","K","L","M",
            "N","O","P","Q","R","S","T","U","V","W","X","Y","Z">>
Lowers == <<"a","b","c","d","e","f","g","h","i","j","k","l","m",
            "n","o","p","q","r","s","t","u","v","w","x","y","z">>
AsciiDigits == <<"0","1","2","3","4","5","6","7","8","9">>
UnicodeDigit == "#3"

Range(s) == {s[i] : i \in DOMAIN s}

LowerChar(c) ==
    IF \E i \in DOMAIN Uppers : Uppers[i] = c
    THEN Lowers[CHOOSE i \in DOMAIN Uppers : Uppers[i] = c]
    ELSE c

\* str::to_lowercase
to_lowercase(s) == [i \in DOMAIN s |-> LowerChar(s[i])]

\* str::split(pattern) for a one-character pattern: n occurrences give n+1
\* pieces, empty pieces are kept.
RECURSIVE split(_, _)
split(s, d) ==
    IF \A i \in DOMAIN s : s[i] # d
    THEN <<s>>
    ELSE LET k == CHOOSE i \in DOMAIN s : s[i] = d /\ \A j \in 1..(i-1) : s[j] # d
         IN <<SubSeq(s, 1, k-1)>> \o split(SubSeq(s, k+1, Len(s)), d)

\* str::trim (the white space of the model's alphabet is the space)
RECURSIVE trim_start(_)
trim_start(s) == IF s # <<>> /\ Head(s) = " " THEN trim_start(Tail(s)) ELSE s

RECURSIVE trim_end(_)
trim_end(s) ==
    IF s # <<>> /\ s[Len(s)] = " " THEN trim_end(SubSeq(s, 1, Len(s)-1)) ELSE s

trim(s) == trim_end(trim_start(s))

\* Mutant: one trailing period is removed.
trim_end_one_period(s) ==
    IF s # <<>> /\ s[Len(s)] = "." THEN SubSeq(s, 1, Len(s)-1) ELSE s

\* str::trim_end_matches('.')
RECURSIVE trim_end_matches_period(_)
trim_end_matches_period(s) ==
    IF s # <<>> /\ s[Len(s)] = "."
    THEN trim_end_matches_period(SubSeq(s, 1, Len(s)-1))
    ELSE s

\* str::starts_with
starts_with(s, p) == Len(s) >= Len(p) /\ SubSeq(s, 1, Len(p)) = p

\* Regex \d: any Unicode decimal digit
IsRegexDigit(c) == c \in Range(AsciiDigits) \/ c = UnicodeDigit

\* Regex (\d+), captures.get(1): the leftmost, longest run of digits; <<>> when
\* there is none.
number_regex_capture(s) ==
    IF \A i \in DOMAIN s : ~IsRegexDigit(s[i])
    THEN <<>>
    ELSE LET b == CHOOSE i \in DOMAIN s :
                    IsRegexDigit(s[i]) /\ \A j \in 1..(i-1) : ~IsRegexDigit(s[j])
             e == CHOOSE i \in b..Len(s) :
                    /\ \A j \in b..i : IsRegexDigit(s[j])
                    /\ (i = Len(s) \/ ~IsRegexDigit(s[i+1]))
         IN SubSeq(s, b, e)

DigitValue(c) == (CHOOSE i \in DOMAIN AsciiDigits : AsciiDigits[i] = c) - 1

RECURSIVE DecimalValue(_)
DecimalValue(ds) ==
    IF ds = <<>> THEN 0
    ELSE 10 * DecimalValue(SubSeq(ds, 1, Len(ds)-1)) + DigitValue(ds[Len(ds)])

\* usize::MAX on the 64-bit targets the service is built for
UsizeMaxDigits == <<"1","8","4","4","6","7","4","4","0","7","3","7","0","9","5","5","1","6","1","5">>

RECURSIVE StripLeadingZeros(_)
StripLeadingZeros(ds) ==
    IF Len(ds) > 1 /\ Head(ds) = "0" THEN StripLeadingZeros(Tail(ds)) ELSE ds

\* a > b for two digit strings of the same length
RECURSIVE DigitsGreater(_, _)
DigitsGreater(a, b) ==
    IF a = <<>> THEN FALSE
    ELSE IF DigitValue(Head(a)) # DigitValue(Head(b))
         THEN DigitValue(Head(a)) > DigitValue(Head(b))
         ELSE DigitsGreater(Tail(a), Tail(b))

\* usize::from_str: -1 stands for Err(ParseIntError).  A value of ten digits or
\* more that fits a usize is returned as 10^9: the callers only compare it with
\* 0 and with 20.
usize_from_str(ds) ==
    IF ds = <<>> \/ \E i \in DOMAIN ds : ds[i] \notin Range(AsciiDigits) THEN -1
    ELSE LET z == StripLeadingZeros(ds)
         IN IF Len(z) <= 9 THEN DecimalValue(z)
            ELSE IF Len(z) > Len(UsizeMaxDigits)
                    \/ (Len(z) = Len(UsizeMaxDigits) /\ DigitsGreater(z, UsizeMaxDigits))
                 THEN -1
                 ELSE 1000000000

\* format!("{}", n) for a usize
RECURSIVE usize_to_string(_)
usize_to_string(n) ==
    IF n < 10 THEN <<AsciiDigits[n+1]>>
    ELSE usize_to_string(n \div 10) \o <<AsciiDigits[(n % 10) + 1]>>


\* ------------------------------------------------------------------------
\* Title tokenizer
\* ------------------------------------------------------------------------
\* IndexSet<String> is a sequence without repetitions, in insertion order.
index_set_insert(set, x) == IF x \in Range(set) THEN set ELSE Append(set, x)

RECURSIVE index_set_collect(_)
index_set_collect(items) ==
    IF items = <<>> THEN <<>>
    ELSE index_set_insert(index_set_collect(SubSeq(items, 1, Len(items)-1)),
                          items[Len(items)])

\* .flat_map(|word| word.split(d))
RECURSIVE flat_map_split(_, _)
flat_map_split(words, d) ==
    IF words = <<>> THEN <<>>
    ELSE split(Head(words), d) \o flat_map_split(Tail(words), d)

\* Mutant: the title is split on the first delimiter, the space, only.
title_word_set_first_delimiter(title) ==
    index_set_collect(split(to_lowercase(title), " "))

\* Mutant: the title is not split on the pipe.
title_word_set_no_pipe(title) ==
    index_set_collect(
        flat_map_split(
            flat_map_split(
                flat_map_split(split(to_lowercase(title), " "), "_"),
                "-"),
            "/"))

title_word_set(title) ==
    index_set_collect(
        flat_map_split(
            flat_map_split(
                flat_map_split(
                    flat_map_split(split(to_lowercase(title), " "), "_"),
                    "-"),
                "/"),
            "|"))

RECURSIVE insert_windows(_, _, _)
insert_windows(title_set, words, i) ==
    IF i >= Len(words) THEN title_set
    ELSE insert_windows(index_set_insert(title_set, words[i] \o words[i+1]), words, i+1)

make_title_more_matchable(title) ==
    LET title_set == title_word_set(trim_end_matches_period(title))
    IN insert_windows(title_set, title_set, 1)

intersection_count(a, b) == Cardinality(Range(a) \cap Range(b))

\* ------------------------------------------------------------------------
\* Data model
\* ------------------------------------------------------------------------
NoDates == [r \in {} |-> 0]

AttendanceAssignment(class_dates) ==
    [type |-> "Attendance", class_dates |-> class_dates,
     title |-> <<>>, html_url |-> "", optionality |-> "Mandatory"]

ExpectedPullRequest(title, html_url, optionality) ==
    [type |-> "ExpectedPullRequest", class_dates |-> NoDates,
     title |-> title, html_url |-> html_url, optionality |-> optionality]

\* Assignment::optionality
optionality(assignment) ==
    IF assignment.type = "Attendance" THEN "Mandatory" ELSE assignment.optionality

NoPr == [number |-> 0, title |-> <<>>, is_closed |-> FALSE, state |-> "Unknown"]
NoAssignment == AttendanceAssignment(NoDates)
NoSubmission == [type |-> "None", attendance |-> "", pull_request |-> NoPr, optionality |-> ""]

AttendanceSubmission(a) ==
    [type |-> "Attendance", attendance |-> a, pull_request |-> NoPr, optionality |-> ""]

\* Mutant: every pull request is recorded as mandatory.
PullRequestSubmission_mandatory(pr, opt) ==
    [type |-> "PullRequest", attendance |-> "", pull_request |-> pr,
     optionality |-> "Mandatory"]

PullRequestSubmission(pr, opt) ==
    [type |-> "PullRequest", attendance |-> "", pull_request |-> pr, optionality |-> opt]

SomeState(submission) ==
    [kind |-> "Some", submission |-> submission, assignment |-> NoAssignment]

MissingState(kind, assignment) ==
    [kind |-> kind, submission |-> NoSubmission, assignment |-> assignment]

\* Mutant: only an attendance submission counts as submitted.
is_submitted_attendance_only(state) ==
    state.kind = "Some" /\ state.submission.type = "Attendance"

\* Mutant: no slot counts as submitted.
is_submitted_never(state) == FALSE

\* SubmissionState::is_submitted
is_submitted(state) == state.kind = "Some"

\* Option<usize>
None == [is_some |-> FALSE, value |-> 0]
Some(v) == [is_some |-> TRUE, value |-> v]


\* ------------------------------------------------------------------------
\* State
\* ------------------------------------------------------------------------
VARIABLES
    module,        \* &Module: module.sprints[i] = [assignments, dates]
    region,        \* &Region
    attendance,    \* Vec<SubmissionState>
    now,           \* Utc::now().date_naive()
    pool,          \* the pull requests the caller may hand over
    prs,           \* the pull requests of the list consumed so far
    sprints,       \* Vec<SprintWithSubmissions>, each its Vec<SubmissionState>
    unknown_prs,   \* Vec<Pr>
    sprint_index,  \* Option<usize>: the claim of the pull request handled last
    result,        \* "running", "Ok" or "Fatal"; "Inserted" between two modules
    modules,       \* TraineeWithSubmissions.modules, in insertion order
    report,        \* progress_score(), status() and attendance() of the trainee
    course_schedule, \* per module: its sprints' class dates and its repository's issues
    issues,        \* fetch_module_assignments: the sorted issues not yet parsed
    fetch_sprints, \* fetch_module_assignments: Vec<Vec<Assignment>>
    fetch_results, \* join_all(module_futures): one Result per module
    parsed,        \* the issue parsed last and the Result of parse_issue
    course,        \* the Result of with_assignments
    raw_title,     \* &str: the title handed to the tokenizer
    word_set,      \* the IndexSet returned by title_word_set(raw_title)
    matchable,     \* the IndexSet returned by make_title_more_matchable(raw_title)
    in_past,       \* the bool returned by Sprint::is_in_past
    groups,        \* GoogleGroups.groups: a set of [email, members]
    groups_given,  \* self.groups as it was when expand_recursively was called
    group_index,   \* expand_recursively: BTreeMap from group email to members
    iteration,     \* expand_recursively: the loop counter
    expanded       \* expand_recursively: "running", "Ok" or "Err"

trainee_vars == <<modules, report>>

course_vars == <<course_schedule, issues, fetch_sprints, fetch_results, parsed, course>>

title_vars == <<raw_title, word_set, matchable>>

groups_vars == <<groups, groups_given, group_index, iteration, expanded>>

library_vars == <<title_vars, in_past, groups_vars>>

vars == <<module, region, attendance, now, pool, prs, sprints, unknown_prs,
          sprint_index, result, modules, report, course_schedule, issues,
          fetch_sprints, fetch_results, parsed, course, raw_title, word_set,
          matchable, in_past, groups, groups_given, group_index, iteration,
          expanded>>

\* No trainee is being scored.
NoReport == [scored |-> FALSE, progress_score |-> 0, status |-> "",
             attendance |-> [numerator |-> 0, denominator |-> 0]]

NoTrainee == modules = <<>> /\ report = NoReport

\* No course is being built.
NoCourse == [state |-> "none", modules |-> <<>>, error |-> "", url |-> ""]

\* No issue has been parsed.
NoParsed == [called |-> FALSE]

NoCourseBuild ==
    /\ course_schedule = <<>>
    /\ issues = <<>>
    /\ fetch_sprints = <<>>
    /\ fetch_results = <<>>
    /\ parsed = NoParsed
    /\ course = NoCourse

\* A function of the library that has not been called.
NotCalled == [called |-> FALSE]

\* The tokenizer is given no title.
NoTitle ==
    /\ raw_title = <<>>
    /\ word_set = NotCalled
    /\ matchable = NotCalled

\* No groups are being expanded.
NoGroups ==
    /\ groups = {}
    /\ groups_given = {}
    /\ group_index = <<>>
    /\ iteration = 0
    /\ expanded = "none"

NoLibraryCall ==
    /\ NoTitle
    /\ in_past = NotCalled
    /\ NoGroups

\* ------------------------------------------------------------------------
\* Sprint::is_in_past
\* ------------------------------------------------------------------------
\* Mutant: the day of the class itself is not yet in the past.
is_in_past_after_the_day(sprint, r, today) ==
    IF r = "unknown" THEN TRUE
    ELSE IF r \in DOMAIN sprint.dates THEN sprint.dates[r] < today
    ELSE TRUE

is_in_past(sprint, r, today) ==
    IF r = "unknown" THEN TRUE
    ELSE IF r \in DOMAIN sprint.dates THEN sprint.dates[r] <= today
    ELSE TRUE

\* ------------------------------------------------------------------------
\* match_prs_to_assignments: seeding and attendance overlay
\* ------------------------------------------------------------------------
\* Mutant: a stretch assignment of a past sprint is seeded as expected.
seed_submission_no_stretch(sprint, assignment, r, today) ==
    IF is_in_past(sprint, r, today)
    THEN MissingState("MissingButExpected", assignment)
    ELSE MissingState("MissingButNotExpected", assignment)

seed_submission(sprint, assignment, r, today) ==
    IF is_in_past(sprint, r, today)
    THEN IF optionality(assignment) = "Mandatory"
         THEN MissingState("MissingButExpected", assignment)
         ELSE MissingState("MissingStretch", assignment)
    ELSE MissingState("MissingButNotExpected", assignment)

seed_sprint(sprint, r, today) ==
    [a \in DOMAIN sprint.assignments |->
        seed_submission(sprint, sprint.assignments[a], r, today)]

\* Mutant: the attendance entry replaces the submissions of the whole sprint.
overlay_attendance_replaces_sprint(submissions, sprint, sprint_number, att) ==
    IF sprint_number \in DOMAIN att THEN <<att[sprint_number]>> ELSE submissions

\* Mutant: the attendance entry is written to every slot of the sprint.
overlay_attendance_every_slot(submissions, sprint, sprint_number, att) ==
    [a \in DOMAIN submissions |->
        IF sprint_number \in DOMAIN att THEN att[sprint_number] ELSE submissions[a]]

\* sprint_number is sprint_index + 1: attendance.get(sprint_index)
overlay_attendance(submissions, sprint, sprint_number, att) ==
    [a \in DOMAIN submissions |->
        IF sprint.assignments[a].type = "Attendance" /\ sprint_number \in DOMAIN att
        THEN att[sprint_number]
        ELSE submissions[a]]

\* ------------------------------------------------------------------------
\* match_prs_to_assignments: the claim of a pull request title
\* ------------------------------------------------------------------------
StrSprint == <<"s","p","r","i","n","t">>
StrWeek == <<"w","e","e","k">>

title_parts(title) ==
    LET parts == split(to_lowercase(title), "|")
    IN [i \in DOMAIN parts |-> trim(parts[i])]

\* Mutant: the first sprint/week part with a number wins, later ones are ignored.
RECURSIVE claim_loop_first_wins(_, _)
claim_loop_first_wins(parts, current) ==
    IF parts = <<>> THEN [fatal |-> FALSE, sprint_index |-> current]
    ELSE LET title_part == Head(parts)
             number_str == number_regex_capture(title_part)
             number == usize_from_str(number_str)
         IN IF (starts_with(title_part, StrSprint) \/ starts_with(title_part, StrWeek))
               /\ number_str # <<>>
            THEN IF number = -1 \/ number = 0 \/ number > MaxSprintNumber
                 THEN [fatal |-> TRUE, sprint_index |-> current]
                 ELSE claim_loop_first_wins(Tail(parts),
                          IF current.is_some THEN current ELSE Some(number - 1))
            ELSE claim_loop_first_wins(Tail(parts), current)

\* Mutant: a number above 20 is accepted as a claim.
RECURSIVE claim_loop_no_upper_bound(_, _)
claim_loop_no_upper_bound(parts, current) ==
    IF parts = <<>> THEN [fatal |-> FALSE, sprint_index |-> current]
    ELSE LET title_part == Head(parts)
             number_str == number_regex_capture(title_part)
             number == usize_from_str(number_str)
         IN IF (starts_with(title_part, StrSprint) \/ starts_with(title_part, StrWeek))
               /\ number_str # <<>>
            THEN IF number = -1 \/ number = 0
                 THEN [fatal |-> TRUE, sprint_index |-> current]
                 ELSE claim_loop_no_upper_bound(Tail(parts), Some(number - 1))
            ELSE claim_loop_no_upper_bound(Tail(parts), current)

\* Mutant: the claimed sprint number is kept as it is, not turned into an index.
RECURSIVE claim_loop_one_based(_, _)
claim_loop_one_based(parts, current) ==
    IF parts = <<>> THEN [fatal |-> FALSE, sprint_index |-> current]
    ELSE LET title_part == Head(parts)
             number_str == number_regex_capture(title_part)
             number == usize_from_str(number_str)
         IN IF (starts_with(title_part, StrSprint) \/ starts_with(title_part, StrWeek))
               /\ number_str # <<>>
            THEN IF number = -1 \/ number = 0 \/ number > MaxSprintNumber
                 THEN [fatal |-> TRUE, sprint_index |-> current]
                 ELSE claim_loop_one_based(Tail(parts), Some(number))
            ELSE claim_loop_one_based(Tail(parts), current)

RECURSIVE claim_loop(_, _)
claim_loop(parts, current) ==
    IF parts = <<>> THEN [fatal |-> FALSE, sprint_index |-> current]
    ELSE LET title_part == Head(parts)
             number_str == number_regex_capture(title_part)
             number == usize_from_str(number_str)
         IN IF (starts_with(title_part, StrSprint) \/ starts_with(title_part, StrWeek))
               /\ number_str # <<>>
            THEN IF number = -1 \/ number = 0 \/ number > MaxSprintNumber
                 THEN [fatal |-> TRUE, sprint_index |-> current]
                 ELSE claim_loop(Tail(parts), Some(number - 1))
            ELSE claim_loop(Tail(parts), current)

extract_claim(title) == claim_loop(title_parts(title), None)

\* ------------------------------------------------------------------------
\* match_pr_to_assignment
\* ------------------------------------------------------------------------
pr_title_words(pr, claimed) ==
    IF claimed.is_some
    THEN index_set_insert(title_word_set(pr.title),
                          StrSprint \o usize_to_string(claimed.value + 1))
    ELSE title_word_set(pr.title)

\* Mutant: the tokens of the claim are added to every assignment.
assignment_title_words_any_title(expected_title, claimed) ==
    LET words == make_title_more_matchable(expected_title)
    IN IF claimed.is_some
       THEN index_set_insert(
                index_set_insert(words, StrSprint \o usize_to_string(claimed.value + 1)),
                StrWeek \o usize_to_string(claimed.value + 1))
       ELSE words

assignment_title_words(expected_title, claimed) ==
    LET words == make_title_more_matchable(expected_title)
    IN IF claimed.is_some /\ StrSprint \in Range(words)
       THEN index_set_insert(
                index_set_insert(words, StrSprint \o usize_to_string(claimed.value + 1)),
                StrWeek \o usize_to_string(claimed.value + 1))
       ELSE words

match_count(pr, assignment, claimed) ==
    intersection_count(assignment_title_words(assignment.title, claimed),
                       pr_title_words(pr, claimed))

\* The slots in iteration order: sprint by sprint, assignment by assignment.
RECURSIVE slot_order(_, _)
slot_order(assignments, s) ==
    IF s > Len(assignments) THEN <<>>
    ELSE [a \in DOMAIN assignments[s].assignments |-> <<s, a>>]
         \o slot_order(assignments, s + 1)

\* Mutant: the claim does not restrict the search.
skip_sprint_never(claimed, index) == FALSE

\* A claimed sprint restricts the search to that sprint.
skip_sprint(claimed, index) == claimed.is_some /\ claimed.value # index

NoMatch == [found |-> FALSE, match_count |-> 0, sprint |-> 0, assignment |-> 0,
            optionality |-> ""]

\* Mutant: a slot with the same count as the best one so far replaces it.
better_match_last_tie(count, best) ==
    count > 0 /\ count >= (IF best.found THEN best.match_count ELSE 0)

better_match(count, best) == count > (IF best.found THEN best.match_count ELSE 0)

RECURSIVE best_match_loop(_, _, _, _, _, _)
best_match_loop(pr, claimed, assignments, submissions, slots, best) ==
    IF slots = <<>> THEN best
    ELSE LET s == Head(slots)[1]
             a == Head(slots)[2]
             assignment == assignments[s].assignments[a]
             count == match_count(pr, assignment, claimed)
         IN IF ~skip_sprint(claimed, s - 1) /\ assignment.type = "ExpectedPullRequest"
               /\ ~is_submitted(submissions[s][a]) /\ better_match(count, best)
            THEN best_match_loop(pr, claimed, assignments, submissions, Tail(slots),
                     [found |-> TRUE, match_count |-> count, sprint |-> s,
                      assignment |-> a, optionality |-> assignment.optionality])
            ELSE best_match_loop(pr, claimed, assignments, submissions, Tail(slots), best)

best_match(pr, claimed, assignments, submissions) ==
    best_match_loop(pr, claimed, assignments, submissions,
                    slot_order(assignments, 1), NoMatch)

\* Mutant: a closed pull request that matched nothing is kept as unknown too.
match_pr_to_assignment_keeps_closed(pr, claimed, assignments, submissions, unknown) ==
    LET best == best_match(pr, claimed, assignments, submissions)
    IN IF best.found
       THEN [submissions |->
                [submissions EXCEPT ![best.sprint][best.assignment] =
                    SomeState(PullRequestSubmission(pr, best.optionality))],
             unknown_prs |-> unknown]
       ELSE [submissions |-> submissions, unknown_prs |-> Append(unknown, pr)]

\* Mutant: an open pull request is listed as unknown even when it filled a slot.
match_pr_to_assignment_lists_matched(pr, claimed, assignments, submissions, unknown) ==
    LET best == best_match(pr, claimed, assignments, submissions)
        listed == IF pr.is_closed THEN unknown ELSE Append(unknown, pr)
    IN IF best.found
       THEN [submissions |->
                [submissions EXCEPT ![best.sprint][best.assignment] =
                    SomeState(PullRequestSubmission(pr, best.optionality))],
             unknown_prs |-> listed]
       ELSE [submissions |-> submissions, unknown_prs |-> listed]

match_pr_to_assignment(pr, claimed, assignments, submissions, unknown) ==
    LET best == best_match(pr, claimed, assignments, submissions)
    IN IF best.found
       THEN [submissions |->
                [submissions EXCEPT ![best.sprint][best.assignment] =
                    SomeState(PullRequestSubmission(pr, best.optionality))],
             unknown_prs |-> unknown]
       ELSE IF ~pr.is_closed
       THEN [submissions |-> submissions, unknown_prs |-> Append(unknown, pr)]
       ELSE [submissions |-> submissions, unknown_prs |-> unknown]


\* ------------------------------------------------------------------------
\* Inputs
\* ------------------------------------------------------------------------
CapSprint == <<"S","p","r","i","n","t">>
CapWeek == <<"W","E","E","K">>

\* "a b" and "Sprint b c."
ExpectedTitleAB == <<"a"," ","b">>
ExpectedTitleSprintBC == CapSprint \o <<" ","b"," ","c",".">>

ExpectedMandatory == ExpectedPullRequest(ExpectedTitleAB, "issue/1", "Mandatory")
ExpectedStretch == ExpectedPullRequest(ExpectedTitleSprintBC, "issue/2", "Stretch")

\* "a_b", "Sprint 2 | b", "WEEK 1|x", "x", "B"
PrTitles ==
    { <<"a","_","b">>,
      CapSprint \o <<" ","2"," ","|"," ","b">>,
      CapWeek \o <<" ","1","|","x">>,
      <<"x">>,
      <<"B">> }

\* The titles of which a closed pull request is in the pool as well.
ClosedPrTitles == { <<"a","_","b">>, <<"x">> }

\* "Sprint 1|sprint 0", "Week 21 | a_b"
BadPrTitles ==
    { CapSprint \o <<" ","1","|">> \o StrSprint \o <<" ","0">>,
      <<"W","e","e","k"," ","2","1"," ","|"," ","a","_","b">> }

\* get_prs keeps a closed pull request only when it is Complete.
PrOf(title, is_closed) ==
    [title |-> title, is_closed |-> is_closed,
     state |-> IF is_closed THEN "Complete" ELSE "NeedsReview"]

MatchPool ==
    {PrOf(t, FALSE) : t \in PrTitles \cup BadPrTitles}
        \cup {PrOf(t, TRUE) : t \in ClosedPrTitles}

Regions == {"london", "unknown"}

SeqsUpTo(S, n) == UNION {[1..k -> S] : k \in 0..n}

SprintOf(dates, expected) ==
    [assignments |-> <<AttendanceAssignment(dates)>> \o expected, dates |-> dates]

LondonOn(date) == [r \in {"london"} |-> date]

AttendancePool ==
    { SomeState(AttendanceSubmission("OnTime")),
      MissingState("MissingButNotExpected", AttendanceAssignment(NoDates)) }

\* The expected pull requests of sprint i: the first len of the two assignments
\* taken in turn, the stretch one first in odd sprints, the mandatory one first
\* in even sprints.
ExpectedOfSprint(i, len) ==
    [k \in 1..len |-> IF (i + k) % 2 = 0 THEN ExpectedStretch ELSE ExpectedMandatory]

\* Modules as with_assignments builds them: every sprint starts with its
\* Attendance assignment, the expected pull requests follow.  Odd sprints are in
\* the past, even sprints are not.
MatchModules ==
    { [sprints |-> [i \in 1..n |->
            SprintOf(LondonOn(Today + ((i + 1) % 2)), ExpectedOfSprint(i, len[i]))]] :
        n \in 0..MaxSprints, len \in [1..MaxSprints -> 0..MaxExpected] }

TypeOK ==
    /\ result \in {"running", "Ok", "Fatal", "Inserted", "none"}
    /\ Len(prs) <= MaxPrs
    /\ Len(sprints) <= Len(module.sprints)

Init ==
    /\ module \in MatchModules
    /\ region = "london"
    /\ attendance \in {<<>>, <<SomeState(AttendanceSubmission("OnTime"))>>}
    /\ now = Today
    /\ pool = MatchPool
    /\ prs = <<>>
    /\ sprints = <<>>
    /\ unknown_prs = <<>>
    /\ sprint_index = None
    /\ result = "running"
    /\ NoTrainee
    /\ NoCourseBuild
    /\ NoLibraryCall

\* ------------------------------------------------------------------------
\* Actions
\* ------------------------------------------------------------------------
\* One iteration of the loop over module.sprints: seed the sprint's slots, then
\* overlay the attendance.
SeedSprint ==
    /\ result = "running"
    /\ Len(sprints) < Len(module.sprints)
    /\ LET n == Len(sprints) + 1
           sprint == module.sprints[n]
       IN sprints' = Append(sprints,
              overlay_attendance(seed_sprint(sprint, region, now), sprint, n, attendance))
    /\ UNCHANGED <<module, region, attendance, now, pool, prs, unknown_prs,
                   sprint_index, result>>
    /\ UNCHANGED <<trainee_vars, course_vars, library_vars>>

\* One iteration of the loop over prs.
ProcessPr(p) ==
    /\ result = "running"
    /\ Len(sprints) = Len(module.sprints)
    /\ Len(prs) < MaxPrs
    /\ LET pr == [number |-> Len(prs) + 1, title |-> p.title,
                  is_closed |-> p.is_closed, state |-> p.state]
           claim == extract_claim(pr.title)
           matched == match_pr_to_assignment(pr, claim.sprint_index, module.sprints,
                                             sprints, unknown_prs)
       IN /\ prs' = Append(prs, pr)
          /\ IF claim.fatal
             THEN /\ result' = "Fatal"
                  /\ UNCHANGED <<sprints, unknown_prs, sprint_index>>
             ELSE /\ sprints' = matched.submissions
                  /\ unknown_prs' = matched.unknown_prs
                  /\ sprint_index' = claim.sprint_index
                  /\ UNCHANGED result
    /\ UNCHANGED <<module, region, attendance, now, pool>>
    /\ UNCHANGED <<trainee_vars, course_vars, library_vars>>

\* The list is exhausted: Ok(ModuleWithSubmissions { sprints, unknown_prs }).
Return ==
    /\ result = "running"
    /\ Len(sprints) = Len(module.sprints)
    /\ result' = "Ok"
    /\ UNCHANGED <<module, region, attendance, now, pool, prs, sprints, unknown_prs,
                   sprint_index>>
    /\ UNCHANGED <<trainee_vars, course_vars, library_vars>>

Next ==
    \/ SeedSprint
    \/ \E p \in pool : ProcessPr(p)
    \/ Return

Spec == Init /\ [][Next]_vars


\* ------------------------------------------------------------------------
\* Seeding with every region, date and attendance list
\* ------------------------------------------------------------------------
SeedDates == {NoDates, LondonOn(Today), LondonOn(Today + 1)}

SeedExpected == <<ExpectedMandatory, ExpectedStretch>>

SeedModules ==
    { [sprints |-> [i \in 1..n |-> SprintOf(d[i], SeedExpected)]] :
        n \in 0..MaxSprints, d \in [1..MaxSprints -> SeedDates] }

SeedPool == { PrOf(<<"a","_","b">>, FALSE), PrOf(StrSprint \o <<" ","0">>, FALSE) }

InitSeed ==
    /\ module \in SeedModules
    /\ region \in Regions
    /\ attendance \in SeqsUpTo(AttendancePool, MaxSprints + 1)
    /\ now \in {Today, Today + 1}
    /\ pool = SeedPool
    /\ prs = <<>>
    /\ sprints = <<>>
    /\ unknown_prs = <<>>
    /\ sprint_index = None
    /\ result = "running"
    /\ NoTrainee
    /\ NoCourseBuild
    /\ NoLibraryCall

SpecSeed == InitSeed /\ [][Next]_vars

\* ------------------------------------------------------------------------
\* Claim extraction over titles assembled from parts
\* ------------------------------------------------------------------------
MaxParts == 2

\* "Sprint 1", " WEEK 2 ", "sprint", "b sprint 1", "week x2y1", "Sprint 0",
\* "Sprint <U+0663>", "sprint 21"
ClaimParts ==
    { CapSprint \o <<" ","1">>,
      <<" ">> \o CapWeek \o <<" ","2"," ">>,
      StrSprint,
      <<"b"," ">> \o StrSprint \o <<" ","1">>,
      StrWeek \o <<" ","x","2","y","1">>,
      CapSprint \o <<" ","0">>,
      CapSprint \o <<" ", UnicodeDigit>>,
      StrSprint \o <<" ","2","1">> }

RECURSIVE JoinParts(_)
JoinParts(parts) ==
    IF Len(parts) = 1 THEN parts[1]
    ELSE parts[1] \o <<"|">> \o JoinParts(Tail(parts))

ClaimTitles == { JoinParts(ps) : ps \in SeqsUpTo(ClaimParts, MaxParts) \ {<<>>} }

ClaimModule ==
    [sprints |-> [i \in 1..MaxSprints |->
        SprintOf(LondonOn(Today), <<SeedExpected[2], SeedExpected[1]>>)]]

InitClaim ==
    /\ module = ClaimModule
    /\ region = "london"
    /\ attendance = <<>>
    /\ now = Today
    /\ pool \in { {PrOf(t, c)} : t \in ClaimTitles, c \in BOOLEAN }
    /\ prs = <<>>
    /\ sprints = <<>>
    /\ unknown_prs = <<>>
    /\ sprint_index = None
    /\ result = "running"
    /\ NoTrainee
    /\ NoCourseBuild
    /\ NoLibraryCall

SpecClaim == InitClaim /\ [][Next]_vars


\* ------------------------------------------------------------------------
\* Properties
\* ------------------------------------------------------------------------
\* The slots of the result built so far.
Slots == UNION {{<<s, a>> : a \in DOMAIN sprints[s]} : s \in DOMAIN sprints}

HoldsPr(sa, pr) ==
    /\ sprints[sa[1]][sa[2]].kind = "Some"
    /\ sprints[sa[1]][sa[2]].submission.type = "PullRequest"
    /\ sprints[sa[1]][sa[2]].submission.pull_request = pr

SlotsHolding(pr) == {sa \in Slots : HoldsPr(sa, pr)}

TimesUnknown(pr) == Cardinality({i \in DOMAIN unknown_prs : unknown_prs[i] = pr})

\* The pull requests that went through match_pr_to_assignment (the one whose
\* title made the call fail did not).
Matched == {k \in DOMAIN prs : ~(result = "Fatal" /\ k = Len(prs))}

ClaimOf(pr) == extract_claim(pr.title).sprint_index

ExpectedSlotsOf(m) ==
    {sa \in UNION {{<<s, a>> : a \in DOMAIN m.sprints[s].assignments} : s \in DOMAIN m.sprints} :
        m.sprints[sa[1]].assignments[sa[2]].type = "ExpectedPullRequest"}

CountFor(pr, sa) ==
    match_count(pr, module.sprints[sa[1]].assignments[sa[2]], ClaimOf(pr))

MatchesNothing(pr) == \A sa \in ExpectedSlotsOf(module) : CountFor(pr, sa) = 0

\* C1: once a slot holds Some(..), no later step of the matching (no pull
\* request processed later in the list) changes that slot.
C1_SlotFilledOnce ==
    [][\A s \in DOMAIN sprints : \A a \in DOMAIN sprints[s] :
          sprints[s][a].kind = "Some" => sprints'[s][a] = sprints[s][a]]_vars

\* C1 witness: the second pull request of the list has words in common with the
\* assignment of a slot the first one already filled, and the slot still holds
\* the first.
C1_Witness ==
    /\ Len(prs) = 2
    /\ result = "running"
    /\ \E sa \in SlotsHolding(prs[1]) :
          /\ CountFor(prs[2], sa) > 0
          /\ ~skip_sprint(ClaimOf(prs[2]), sa[1] - 1)

\* C2: a pull request whose match_count is 0 against every ExpectedPullRequest
\* assignment of every sprint is appended to unknown_prs when it is open, and
\* is in no slot and not in unknown_prs when it is closed.
C2_UnmatchedOpenUnknownClosedDropped ==
    \A k \in Matched :
        MatchesNothing(prs[k]) =>
            /\ SlotsHolding(prs[k]) = {}
            /\ TimesUnknown(prs[k]) = (IF prs[k].is_closed THEN 0 ELSE 1)

\* C2 witness: an open and a closed pull request that match no assignment of a
\* module that has expected pull requests.
C2_Witness ==
    /\ ExpectedSlotsOf(module) # {}
    /\ Len(prs) = 2 /\ result = "Ok"
    /\ MatchesNothing(prs[1]) /\ MatchesNothing(prs[2])
    /\ ~prs[1].is_closed /\ prs[2].is_closed
    /\ unknown_prs = <<prs[1]>>

\* C3: every pull request of the list is in exactly one slot, or exactly once in
\* unknown_prs, or nowhere; never in two slots, never in a slot and in
\* unknown_prs; and nothing else is in a slot or in unknown_prs.
C3_PrInAtMostOnePlace ==
    /\ \A k \in DOMAIN prs :
          Cardinality(SlotsHolding(prs[k])) + TimesUnknown(prs[k]) <= 1
    /\ \A i \in DOMAIN unknown_prs : unknown_prs[i] \in Range(prs)
    /\ \A sa \in Slots :
          (sprints[sa[1]][sa[2]].kind = "Some"
              /\ sprints[sa[1]][sa[2]].submission.type = "PullRequest")
          => sprints[sa[1]][sa[2]].submission.pull_request \in Range(prs)

\* C3 witness: Ok is returned with one open pull request in a slot and another
\* open one in unknown_prs.
C3_Witness ==
    /\ result = "Ok" /\ Len(prs) = 2
    /\ ~prs[1].is_closed /\ ~prs[2].is_closed
    /\ Cardinality(SlotsHolding(prs[1])) = 1 /\ TimesUnknown(prs[1]) = 0
    /\ SlotsHolding(prs[2]) = {} /\ TimesUnknown(prs[2]) = 1


HoldsSomePr(sa) ==
    /\ sprints[sa[1]][sa[2]].kind = "Some"
    /\ sprints[sa[1]][sa[2]].submission.type = "PullRequest"

AssignmentAt(sa) == module.sprints[sa[1]].assignments[sa[2]]

Overlaid(sa) == AssignmentAt(sa).type = "Attendance" /\ sa[1] \in DOMAIN attendance

\* C4: the returned ModuleWithSubmissions has as many sprints as the Module, and
\* sprint i has exactly as many submission states as Module sprint i has
\* assignments, whatever the pull requests and the attendance list; the same
\* holds of every sprint built so far while the call runs.
C4_OneStatePerSlot ==
    /\ result = "Ok" => Len(sprints) = Len(module.sprints)
    /\ Len(sprints) <= Len(module.sprints)
    /\ \A s \in DOMAIN sprints :
          DOMAIN sprints[s] = DOMAIN module.sprints[s].assignments

\* C4 witness: Ok is returned for a module of two sprints or more with an
\* attendance list that is not empty and shorter than the sprint list, after a
\* pull request was matched.
C4_Witness ==
    /\ result = "Ok"
    /\ Len(module.sprints) >= 2
    /\ Len(attendance) > 0 /\ Len(attendance) < Len(module.sprints)
    /\ Len(prs) > 0

\* C5: a slot that no pull request filled and that took no attendance entry is
\* MissingButExpected when its sprint is in the past and its assignment is
\* mandatory, MissingStretch when the sprint is in the past and the assignment
\* is Stretch, MissingButNotExpected when the sprint is not in the past; the
\* state carries the slot's own assignment.
C5_Seeding ==
    \A sa \in Slots :
        (~HoldsSomePr(sa) /\ ~Overlaid(sa)) =>
            /\ sprints[sa[1]][sa[2]].assignment = AssignmentAt(sa)
            /\ sprints[sa[1]][sa[2]].kind =
                  (IF ~is_in_past(module.sprints[sa[1]], region, now)
                   THEN "MissingButNotExpected"
                   ELSE IF AssignmentAt(sa).type = "ExpectedPullRequest"
                           /\ AssignmentAt(sa).optionality = "Stretch"
                        THEN "MissingStretch"
                        ELSE "MissingButExpected")

\* C5 witness: a returned module with a past sprint whose mandatory and stretch
\* pull requests are both missing, and a sprint not in the past with a missing
\* pull request.
C5_Witness ==
    /\ result = "Ok"
    /\ \E s \in DOMAIN sprints :
          /\ \E a \in DOMAIN sprints[s] :
                /\ sprints[s][a].kind = "MissingButExpected"
                /\ sprints[s][a].assignment.type = "ExpectedPullRequest"
          /\ \E a \in DOMAIN sprints[s] : sprints[s][a].kind = "MissingStretch"
    /\ \E s \in DOMAIN sprints : \E a \in DOMAIN sprints[s] :
          /\ sprints[s][a].kind = "MissingButNotExpected"
          /\ sprints[s][a].assignment.type = "ExpectedPullRequest"

\* C6: in every sprint i an Attendance slot holds attendance[i] when the list has
\* an entry at index i and its seeded state otherwise; a slot of an
\* ExpectedPullRequest is never given an attendance entry: it holds its seeded
\* state or a pull request.
C6_AttendanceOverlay ==
    \A sa \in Slots :
        LET seeded == seed_submission(module.sprints[sa[1]], AssignmentAt(sa), region, now)
        IN IF AssignmentAt(sa).type = "Attendance"
           THEN sprints[sa[1]][sa[2]] =
                    (IF sa[1] \in DOMAIN attendance THEN attendance[sa[1]] ELSE seeded)
           ELSE sprints[sa[1]][sa[2]] = seeded \/ HoldsSomePr(sa)

\* C6 witness: the attendance list has one entry, a present attendance; sprint 1
\* holds it, the Attendance slot of sprint 2 keeps its seeded state, and the
\* expected pull requests of sprint 1 are still missing.
C6_Witness ==
    /\ result = "Ok"
    /\ Len(sprints) = 2 /\ Len(attendance) = 1
    /\ attendance[1].kind = "Some"
    /\ sprints[1][1] = attendance[1]
    /\ sprints[2][1].kind \in {"MissingButExpected", "MissingButNotExpected"}
    /\ sprints[2][1].assignment = module.sprints[2].assignments[1]
    /\ \A a \in DOMAIN sprints[1] : a > 1 => sprints[1][a].kind # "Some"


\* The '|'-separated parts of a title, lower-cased and trimmed, that start with
\* "sprint" or "week" and contain a digit.
ClaimingParts(title) ==
    LET parts == title_parts(title)
    IN {i \in DOMAIN parts :
            /\ starts_with(parts[i], StrSprint) \/ starts_with(parts[i], StrWeek)
            /\ \E j \in DOMAIN parts[i] : IsRegexDigit(parts[i][j])}

\* The first run of digits of a part that has a digit.
FirstDigitRun(part) ==
    LET digits == {j \in DOMAIN part : IsRegexDigit(part[j])}
        b == CHOOSE j \in digits : \A k \in digits : j <= k
        e == CHOOSE j \in digits :
                /\ \A k \in b..j : k \in digits
                /\ (j + 1) \notin digits
                /\ j >= b
                /\ \A k \in digits : (k >= b /\ (k + 1) \notin digits) => j <= k
    IN SubSeq(part, b, e)

\* The number a run of decimal digits denotes, capped at 100.
RECURSIVE NumberOf(_)
NumberOf(run) ==
    IF run = <<>> THEN 0
    ELSE LET d == IF run[Len(run)] = UnicodeDigit THEN 3 ELSE DigitValue(run[Len(run)])
             n == 10 * NumberOf(SubSeq(run, 1, Len(run) - 1)) + d
         IN IF n > 100 THEN 100 ELSE n

PartNumber(title, i) == NumberOf(FirstDigitRun(title_parts(title)[i]))

InRange(n) == n >= 1 /\ n <= 20

LastOf(S) == CHOOSE i \in S : \A j \in S : j <= i

\* C7: the claim of a pull request whose title was accepted is the first digit
\* run of the last part that starts with "sprint" or "week" and has a digit, and
\* None when the title has no such part; a title with several such parts, all
\* numbered within 1..20 in ASCII digits, is accepted.
C7_LastClaimWins ==
    Len(prs) > 0 =>
        LET title == prs[Len(prs)].title
            claiming == ClaimingParts(title)
        IN /\ result # "Fatal" =>
                 sprint_index =
                    (IF claiming = {} THEN None
                     ELSE Some(PartNumber(title, LastOf(claiming)) - 1))
           /\ (\A i \in claiming :
                   /\ InRange(PartNumber(title, i))
                   /\ UnicodeDigit \notin Range(FirstDigitRun(title_parts(title)[i])))
              => result # "Fatal"

\* C7 witness: the title handled last has two claiming parts with different
\* numbers and the claim is the number of the second.
C7_Witness ==
    /\ Len(prs) > 0 /\ result = "running"
    /\ LET title == prs[Len(prs)].title
           claiming == ClaimingParts(title)
       IN /\ Cardinality(claiming) = 2
          /\ \E i \in claiming :
                PartNumber(title, i) # PartNumber(title, LastOf(claiming))
          /\ sprint_index = Some(PartNumber(title, LastOf(claiming)) - 1)

\* A title with a sprint/week part whose number is 0 or greater than 20.
HasImpracticalNumber(title) ==
    \E i \in ClaimingParts(title) :
        /\ UnicodeDigit \notin Range(FirstDigitRun(title_parts(title)[i]))
        /\ ~InRange(PartNumber(title, i))

\* C8: as soon as a pull request with a sprint/week number that is 0 or greater
\* than 20 has been taken from the list, the call has failed with Fatal; no
\* ModuleWithSubmissions is returned for such a list.
C8_ImpracticalNumberIsFatal ==
    (\E k \in DOMAIN prs : HasImpracticalNumber(prs[k].title)) => result = "Fatal"

\* C8 witness: the call fails on the second pull request after the first one
\* was matched to a slot.
C8_Witness ==
    /\ result = "Fatal" /\ Len(prs) = 2
    /\ SlotsHolding(prs[1]) # {}
    /\ HasImpracticalNumber(prs[2].title)

\* C9: the call fails only when a pull request title has a sprint/week number
\* outside 1..20.
C9_OnlyImpracticalNumberIsFatal ==
    result = "Fatal" =>
        \E k \in DOMAIN prs : \E i \in ClaimingParts(prs[k].title) :
            ~InRange(PartNumber(prs[k].title, i))

\* C10: a pull request with a claim for sprint N is only ever in a slot of
\* sprint index N-1.
C10_ClaimRestrictsSprint ==
    \A sa \in Slots :
        HoldsSomePr(sa) =>
            LET claim == ClaimOf(sprints[sa[1]][sa[2]].submission.pull_request)
            IN claim.is_some => claim.value = sa[1] - 1

\* C10 witness: a pull request claiming sprint 2 sits in sprint 2 although an
\* open slot of sprint 1 has words in common with it, and a pull request
\* without a claim sits in a slot of sprint 2.
C10_Witness ==
    /\ result = "Ok"
    /\ \E k \in DOMAIN prs :
          /\ ClaimOf(prs[k]) = Some(1)
          /\ \E sa \in SlotsHolding(prs[k]) : sa[1] = 2
          /\ \E sb \in ExpectedSlotsOf(module) :
                sb[1] = 1 /\ CountFor(prs[k], sb) > 0 /\ sprints[sb[1]][sb[2]].kind # "Some"
    /\ \E k \in DOMAIN prs :
          /\ ~ClaimOf(prs[k]).is_some
          /\ \E sa \in SlotsHolding(prs[k]) : sa[1] = 2


\* ------------------------------------------------------------------------
\* A one-sprint module and pull requests titled the way trainees title them
\* ------------------------------------------------------------------------
\* "Sprint 2 | implement linked list"
LinkedListIssueTitle ==
    <<"S","p","r","i","n","t"," ","2"," ","|"," ","i","m","p","l","e","m",
      "e","n","t"," ","l","i","n","k","e","d"," ","l","i","s","t">>

\* "London | March-2025 | First Last | Sprint 2 | implement_linked_list"
LinkedListPrTitle ==
    <<"L","o","n","d","o","n"," ","|"," ","M","a","r","c","h","-","2","0",
      "2","5"," ","|"," ","F","i","r","s","t"," ","L","a","s","t"," ","|",
      " ","S","p","r","i","n","t"," ","2"," ","|"," ","i","m","p","l","e",
      "m","e","n","t","_","l","i","n","k","e","d","_","l","i","s","t">>

\* "London | March-2025 | First Last | Sprint 1 | implement_linked_list"
LinkedListSprint1PrTitle ==
    <<"L","o","n","d","o","n"," ","|"," ","M","a","r","c","h","-","2","0",
      "2","5"," ","|"," ","F","i","r","s","t"," ","L","a","s","t"," ","|",
      " ","S","p","r","i","n","t"," ","1"," ","|"," ","i","m","p","l","e",
      "m","e","n","t","_","l","i","n","k","e","d","_","l","i","s","t">>

\* "implement_linked_list"
LinkedListBarePrTitle ==
    <<"i","m","p","l","e","m","e","n","t","_","l","i","n","k","e","d","_",
      "l","i","s","t">>

LinkedListExpected ==
    ExpectedPullRequest(LinkedListIssueTitle, "issue/3", "Mandatory")

\* The assignment is the only one of a one-sprint module, or the only one of the
\* second sprint of a two-sprint module.
ScenarioModules ==
    { [sprints |-> <<SprintOf(d, <<LinkedListExpected>>)>>] : d \in SeedDates }
    \cup { [sprints |-> <<SprintOf(d, <<>>), SprintOf(d, <<LinkedListExpected>>)>>] :
            d \in SeedDates }

ScenarioPool ==
    { PrOf(t, c) : t \in {LinkedListPrTitle, LinkedListSprint1PrTitle,
                          LinkedListBarePrTitle},
                   c \in BOOLEAN }

InitScenario ==
    /\ module \in ScenarioModules
    /\ region \in Regions
    /\ attendance \in SeqsUpTo(AttendancePool, 1)
    /\ now = Today
    /\ pool = ScenarioPool
    /\ prs = <<>>
    /\ sprints = <<>>
    /\ unknown_prs = <<>>
    /\ sprint_index = None
    /\ result = "running"
    /\ NoTrainee
    /\ NoCourseBuild
    /\ NoLibraryCall

SpecScenario == InitScenario /\ [][Next]_vars

\* The slot of the linked-list assignment: the last sprint's second assignment.
LinkedListSlot == sprints[Len(sprints)][2]

\* C11: in a module with one sprint holding one mandatory ExpectedPullRequest
\* titled "Sprint 2 | implement linked list", the pull request titled
\* "London | March-2025 | First Last | Sprint 2 | implement_linked_list" fills
\* that slot and is not in unknown_prs.
C11_LinkedListPrMatched ==
    (result = "Ok" /\ Len(module.sprints) = 1
        /\ Len(prs) = 1 /\ prs[1].title = LinkedListPrTitle) =>
        /\ LinkedListSlot.kind = "Some"
        /\ LinkedListSlot.submission.type = "PullRequest"
        /\ LinkedListSlot.submission.pull_request = prs[1]
        /\ unknown_prs = <<>>

\* C11 as amended: when the assignment is in the second sprint of a two-sprint
\* module the pull request fills its slot and is not in unknown_prs; in the
\* one-sprint module the claim for sprint 2 matches nothing: the slot stays
\* missing, and the pull request is in unknown_prs when it is open and dropped
\* when it is closed.
C11_LinkedListPrMatchedInSprint2 ==
    (result = "Ok" /\ Len(prs) = 1 /\ prs[1].title = LinkedListPrTitle) =>
        IF Len(module.sprints) = 2
        THEN /\ LinkedListSlot.kind = "Some"
             /\ LinkedListSlot.submission.type = "PullRequest"
             /\ LinkedListSlot.submission.pull_request = prs[1]
             /\ unknown_prs = <<>>
        ELSE /\ LinkedListSlot.kind # "Some"
             /\ unknown_prs = IF prs[1].is_closed THEN <<>> ELSE <<prs[1]>>

\* The pull request has been matched against the two-sprint module.
C11_Witness ==
    /\ result = "Ok"
    /\ Len(module.sprints) = 2
    /\ Len(prs) = 1
    /\ prs[1].title = LinkedListPrTitle
    /\ LinkedListSlot.kind = "Some"


\* ------------------------------------------------------------------------
\* match_prs_to_assignments as one call
\* ------------------------------------------------------------------------
seed_all(m, att, r, today) ==
    [n \in DOMAIN m.sprints |->
        overlay_attendance(seed_sprint(m.sprints[n], r, today), m.sprints[n], n, att)]

RECURSIVE match_all(_, _, _, _, _)
match_all(list, number, m, submissions, unknown) ==
    IF list = <<>>
    THEN [ok |-> TRUE, sprints |-> submissions, unknown_prs |-> unknown]
    ELSE LET pr == [number |-> number, title |-> Head(list).title,
                    is_closed |-> Head(list).is_closed, state |-> Head(list).state]
             claim == extract_claim(pr.title)
             matched == match_pr_to_assignment(pr, claim.sprint_index, m.sprints,
                                               submissions, unknown)
         IN IF claim.fatal
            THEN [ok |-> FALSE, sprints |-> <<>>, unknown_prs |-> <<>>]
            ELSE match_all(Tail(list), number + 1, m, matched.submissions,
                           matched.unknown_prs)

match_prs_to_assignments(m, list, att, r, today) ==
    match_all(list, 1, m, seed_all(m, att, r, today), <<>>)

\* ModuleWithSubmissions
ModuleWithSubmissions(submissions, unknown) ==
    [sprints |-> submissions, unknown_prs |-> unknown]

\* ------------------------------------------------------------------------
\* TraineeWithSubmissions: progress_score, status, attendance
\* ------------------------------------------------------------------------
\* The submission states of all sprints of all modules, in iteration order.
sprint_submissions(ms, k, s) ==
    [a \in DOMAIN ms[k].sprints[s] |-> ms[k].sprints[s][a]]

RECURSIVE module_submissions(_, _, _)
module_submissions(ms, k, s) ==
    IF s > Len(ms[k].sprints) THEN <<>>
    ELSE sprint_submissions(ms, k, s) \o module_submissions(ms, k, s + 1)

RECURSIVE submissions_from(_, _)
submissions_from(ms, k) ==
    IF k > Len(ms) THEN <<>>
    ELSE module_submissions(ms, k, 1) \o submissions_from(ms, k + 1)

all_submissions(ms) == submissions_from(ms, 1)

pull_request_max(opt) == IF opt = "Mandatory" THEN 10 ELSE 12

\* Mutant: every pull request counts 10 in the denominator.
score_submission_flat_max(state) ==
    IF state.kind = "Some" /\ state.submission.type = "Attendance"
    THEN [denominator |-> 10,
          numerator |-> CASE state.submission.attendance = "OnTime" -> 10
                          [] state.submission.attendance = "Late" -> 8
                          [] state.submission.attendance = "WrongDay" -> 3
                          [] OTHER -> 0]
    ELSE IF state.kind = "Some"
    THEN LET max == pull_request_max(state.submission.optionality)
         IN [denominator |-> 10,
             numerator |-> CASE state.submission.pull_request.state = "Complete" -> max
                             [] state.submission.pull_request.state
                                    \in {"NeedsReview", "Reviewed"} -> 6
                             [] OTHER -> 2]
    ELSE IF state.kind = "MissingButExpected"
    THEN [denominator |-> IF state.assignment.type = "Attendance" THEN 20 ELSE 10,
          numerator |-> 0]
    ELSE IF state.kind = "MissingStretch"
    THEN [denominator |-> 2, numerator |-> 0]
    ELSE [denominator |-> 0, numerator |-> 0]

\* Mutant: a missing attendance counts like a missing pull request.
score_submission_missing_ten(state) ==
    IF state.kind = "Some" /\ state.submission.type = "Attendance"
    THEN [denominator |-> 10,
          numerator |-> CASE state.submission.attendance = "OnTime" -> 10
                          [] state.submission.attendance = "Late" -> 8
                          [] state.submission.attendance = "WrongDay" -> 3
                          [] OTHER -> 0]
    ELSE IF state.kind = "Some"
    THEN LET max == pull_request_max(state.submission.optionality)
         IN [denominator |-> max,
             numerator |-> CASE state.submission.pull_request.state = "Complete" -> max
                             [] state.submission.pull_request.state
                                    \in {"NeedsReview", "Reviewed"} -> 6
                             [] OTHER -> 2]
    ELSE IF state.kind = "MissingButExpected"
    THEN [denominator |-> 10, numerator |-> 0]
    ELSE IF state.kind = "MissingStretch"
    THEN [denominator |-> 2, numerator |-> 0]
    ELSE [denominator |-> 0, numerator |-> 0]

\* What one submission state adds to the numerator and to the denominator.
score_submission(state) ==
    IF state.kind = "Some" /\ state.submission.type = "Attendance"
    THEN [denominator |-> 10,
          numerator |-> CASE state.submission.attendance = "OnTime" -> 10
                          [] state.submission.attendance = "Late" -> 8
                          [] state.submission.attendance = "WrongDay" -> 3
                          [] OTHER -> 0]
    ELSE IF state.kind = "Some"
    THEN LET max == pull_request_max(state.submission.optionality)
         IN [denominator |-> max,
             numerator |-> CASE state.submission.pull_request.state = "Complete" -> max
                             [] state.submission.pull_request.state
                                    \in {"NeedsReview", "Reviewed"} -> 6
                             [] OTHER -> 2]
    ELSE IF state.kind = "MissingButExpected"
    THEN [denominator |-> IF state.assignment.type = "Attendance" THEN 20 ELSE 10,
          numerator |-> 0]
    ELSE IF state.kind = "MissingStretch"
    THEN [denominator |-> 2, numerator |-> 0]
    ELSE [denominator |-> 0, numerator |-> 0]

RECURSIVE score_loop(_, _)
score_loop(states, total) ==
    IF states = <<>> THEN total
    ELSE LET add == score_submission(Head(states))
         IN score_loop(Tail(states),
                [numerator |-> total.numerator + add.numerator,
                 denominator |-> total.denominator + add.denominator])

\* u64::checked_div(..).unwrap_or(0)
checked_div_or_zero(a, b) == IF b = 0 THEN 0 ELSE a \div b

\* The sums stay far below 2^64 for the trainees modelled here.
progress_score(ms) ==
    LET total == score_loop(all_submissions(ms), [numerator |-> 0, denominator |-> 0])
    IN checked_div_or_zero(10000 * total.numerator, total.denominator)

\* Mutant: the thresholds are exclusive.
status_of_exclusive(score) ==
    IF score > 5000 THEN "OnTrack"
    ELSE IF score > 2500 THEN "Behind"
    ELSE "AtRisk"

status_of(score) ==
    IF score >= 5000 THEN "OnTrack"
    ELSE IF score >= 2500 THEN "Behind"
    ELSE "AtRisk"

status(ms) == status_of(progress_score(ms))

\* Mutant: attendance on the wrong day counts as attended.
attendance_counts_wrong_day(state) ==
    IF state.kind = "Some" /\ state.submission.type = "Attendance"
    THEN [denominator |-> 1,
          numerator |-> IF state.submission.attendance \in {"OnTime", "Late", "WrongDay"}
                        THEN 1 ELSE 0]
    ELSE [denominator |-> 0, numerator |-> 0]

\* What one submission state adds to the attendance fraction.
attendance_counts(state) ==
    IF state.kind = "Some" /\ state.submission.type = "Attendance"
    THEN [denominator |-> 1,
          numerator |-> IF state.submission.attendance \in {"OnTime", "Late"}
                        THEN 1 ELSE 0]
    ELSE [denominator |-> 0, numerator |-> 0]

RECURSIVE attendance_loop(_, _)
attendance_loop(states, total) ==
    IF states = <<>> THEN total
    ELSE LET add == attendance_counts(Head(states))
         IN attendance_loop(Tail(states),
                [numerator |-> total.numerator + add.numerator,
                 denominator |-> total.denominator + add.denominator])

\* TraineeWithSubmissions::attendance
attendance_fraction(ms) ==
    attendance_loop(all_submissions(ms), [numerator |-> 0, denominator |-> 0])


\* ------------------------------------------------------------------------
\* A trainee: the modules inserted so far and the module being matched
\* ------------------------------------------------------------------------
TraineeAttendancePool ==
    { SomeState(AttendanceSubmission("OnTime")),
      SomeState(AttendanceSubmission("Late")),
      SomeState(AttendanceSubmission("WrongDay")),
      SomeState(AttendanceSubmission("Absent")),
      MissingState("MissingButNotExpected", AttendanceAssignment(NoDates)) }

TraineeAttendance ==
    SeqsUpTo(TraineeAttendancePool, 1)
        \cup { <<SomeState(AttendanceSubmission("OnTime")),
                 SomeState(AttendanceSubmission("Late"))>> }

TraineeExpected == { <<>>, <<ExpectedMandatory>>, <<ExpectedMandatory, ExpectedStretch>> }

TraineeModules ==
    { [sprints |-> <<SprintOf(LondonOn(d), e)>>] :
        d \in {Today, Today + 1}, e \in TraineeExpected }
    \cup { [sprints |-> <<SprintOf(LondonOn(Today), <<ExpectedMandatory>>),
                          SprintOf(LondonOn(Today + 1), <<ExpectedStretch>>)>>] }

\* Pull requests in every PrState: "a_b" closed and complete, "a_b" needing
\* review, "b" reviewed, "c" with no state label.
TraineePool ==
    { [title |-> <<"a","_","b">>, is_closed |-> TRUE, state |-> "Complete"],
      [title |-> <<"a","_","b">>, is_closed |-> FALSE, state |-> "NeedsReview"],
      [title |-> <<"b">>, is_closed |-> FALSE, state |-> "Reviewed"],
      [title |-> <<"c">>, is_closed |-> FALSE, state |-> "Unknown"] }

\* The result of an earlier iteration of the loop over the course's modules.
EarlierModule(m, list, att) ==
    LET matched == match_prs_to_assignments(m, list, att, "london", Today)
    IN ModuleWithSubmissions(matched.sprints, matched.unknown_prs)

TraineeEarlierModules ==
    { <<>>,
      <<EarlierModule(
            [sprints |-> <<SprintOf(LondonOn(Today),
                                    <<ExpectedMandatory, ExpectedStretch>>)>>],
            << [title |-> <<"a","_","b">>, is_closed |-> TRUE, state |-> "Complete"],
               [title |-> <<"c">>, is_closed |-> FALSE, state |-> "Unknown"] >>,
            <<SomeState(AttendanceSubmission("Late"))>>)>>,
      <<EarlierModule(
            [sprints |-> <<SprintOf(LondonOn(Today + 1), <<ExpectedMandatory>>)>>],
            <<>>, <<>>)>>,
      <<EarlierModule([sprints |-> <<SprintOf(LondonOn(Today), <<>>)>>], <<>>, <<>>)>> }

InitTrainee ==
    /\ module \in TraineeModules
    /\ region = "london"
    /\ attendance \in TraineeAttendance
    /\ now = Today
    /\ pool = TraineePool
    /\ prs = <<>>
    /\ sprints = <<>>
    /\ unknown_prs = <<>>
    /\ sprint_index = None
    /\ result = "running"
    /\ modules \in TraineeEarlierModules
    /\ report = NoReport
    /\ NoCourseBuild
    /\ NoLibraryCall

\* get_batch_with_submissions: the matched module is inserted into the trainee's
\* modules.
InsertModule ==
    /\ result = "Ok"
    /\ modules' = Append(modules, ModuleWithSubmissions(sprints, unknown_prs))
    /\ result' = "Inserted"
    /\ UNCHANGED <<module, region, attendance, now, pool, prs, sprints, unknown_prs,
                   sprint_index, report>>
    /\ UNCHANGED <<course_vars, library_vars>>

\* The trainee is built: progress_score(), status() and attendance() are taken.
Score ==
    /\ result = "Inserted"
    /\ ~report.scored
    /\ report' = [scored |-> TRUE,
                  progress_score |-> progress_score(modules),
                  status |-> status(modules),
                  attendance |-> attendance_fraction(modules)]
    /\ UNCHANGED <<module, region, attendance, now, pool, prs, sprints, unknown_prs,
                   sprint_index, result, modules>>
    /\ UNCHANGED <<course_vars, library_vars>>

NextTrainee ==
    \/ Next
    \/ InsertModule
    \/ Score

SpecTrainee == InitTrainee /\ [][NextTrainee]_vars


\* ------------------------------------------------------------------------
\* Properties of the trainee's scores
\* ------------------------------------------------------------------------
\* The slots of the trainee's modules: module, sprint, assignment.
Positions ==
    UNION { UNION { { <<k, s, a>> : a \in DOMAIN modules[k].sprints[s] } :
                    s \in DOMAIN modules[k].sprints } :
            k \in DOMAIN modules }

StateAt(p) == modules[p[1]].sprints[p[2]][p[3]]

AttendedAs(kinds) ==
    { p \in Positions : /\ StateAt(p).kind = "Some"
                        /\ StateAt(p).submission.type = "Attendance"
                        /\ StateAt(p).submission.attendance \in kinds }

AttendanceKinds == {"OnTime", "Late", "WrongDay", "Absent"}

PrStates == {"NeedsReview", "Reviewed", "Complete", "Unknown"}

PullRequestsOf(opts, states) ==
    { p \in Positions : /\ StateAt(p).kind = "Some"
                        /\ StateAt(p).submission.type = "PullRequest"
                        /\ StateAt(p).submission.optionality \in opts
                        /\ StateAt(p).submission.pull_request.state \in states }

MissingOf(kind, types) ==
    { p \in Positions : StateAt(p).kind = kind /\ StateAt(p).assignment.type \in types }

AssignmentTypes == {"Attendance", "ExpectedPullRequest"}

Optionalities == {"Mandatory", "Stretch"}

AllNotExpected == \A p \in Positions : StateAt(p).kind = "MissingButNotExpected"

ClaimedNumerator ==
    10 * Cardinality(AttendedAs({"OnTime"}))
    + 8 * Cardinality(AttendedAs({"Late"}))
    + 3 * Cardinality(AttendedAs({"WrongDay"}))
    + 10 * Cardinality(PullRequestsOf({"Mandatory"}, {"Complete"}))
    + 12 * Cardinality(PullRequestsOf({"Stretch"}, {"Complete"}))
    + 6 * Cardinality(PullRequestsOf(Optionalities, {"NeedsReview", "Reviewed"}))
    + 2 * Cardinality(PullRequestsOf(Optionalities, {"Unknown"}))

ClaimedDenominator ==
    10 * Cardinality(AttendedAs(AttendanceKinds))
    + 10 * Cardinality(PullRequestsOf({"Mandatory"}, PrStates))
    + 12 * Cardinality(PullRequestsOf({"Stretch"}, PrStates))
    + 20 * Cardinality(MissingOf("MissingButExpected", {"Attendance"}))
    + 10 * Cardinality(MissingOf("MissingButExpected", {"ExpectedPullRequest"}))
    + 2 * Cardinality(MissingOf("MissingStretch", AssignmentTypes))

\* C12: progress_score is within [0, 10000] for every set of matched modules,
\* and is 0 when every submission state is MissingButNotExpected.
C12_ScoreInRange ==
    report.scored =>
        /\ report.progress_score >= 0
        /\ report.progress_score <= 10000
        /\ AllNotExpected => report.progress_score = 0

\* A trainee with slots, all of them MissingButNotExpected, has been scored.
C12_Witness ==
    /\ report.scored
    /\ Positions # {}
    /\ AllNotExpected
    /\ Len(modules) = 2

\* C13: progress_score is floor(10000 * numerator / denominator), or 0 when the
\* denominator is 0, with the numerator and the denominator summed over all
\* submission states of all sprints of all modules: attendance adds 10/8/3/0 of
\* 10, a pull request adds max (Complete), 6 (NeedsReview, Reviewed) or 2
\* (Unknown) of max (10 mandatory, 12 stretch), MissingButExpected adds 20
\* (attendance) or 10 (pull request) to the denominator, MissingStretch adds 2 to
\* the denominator, MissingButNotExpected adds nothing.
C13_ScoreFormula ==
    report.scored =>
        report.progress_score =
            IF ClaimedDenominator = 0 THEN 0
            ELSE (10000 * ClaimedNumerator) \div ClaimedDenominator

\* A scored trainee with a late attendance, a stretch pull request, a missing
\* attendance and a missing stretch assignment, over two modules.
C13_Witness ==
    /\ report.scored
    /\ Len(modules) = 2
    /\ AttendedAs({"Late"}) # {}
    /\ PullRequestsOf({"Stretch"}, PrStates) # {}
    /\ MissingOf("MissingButExpected", {"Attendance"}) # {}
    /\ MissingOf("MissingStretch", AssignmentTypes) # {}

\* C14: status is OnTrack exactly when progress_score >= 5000, Behind exactly
\* when 2500 <= progress_score < 5000, AtRisk exactly when progress_score < 2500;
\* a trainee whose every submission is MissingButNotExpected is AtRisk.
C14_StatusThresholds ==
    report.scored =>
        /\ report.status = "OnTrack" <=> report.progress_score >= 5000
        /\ report.status = "Behind" <=>
               (report.progress_score >= 2500 /\ report.progress_score < 5000)
        /\ report.status = "AtRisk" <=> report.progress_score < 2500
        /\ AllNotExpected => report.status = "AtRisk"

\* A trainee scoring exactly 2500 is Behind.
C14_Witness ==
    /\ report.scored
    /\ report.progress_score = 2500
    /\ report.status = "Behind"

\* C15: attendance() has as numerator the number of slots holding an OnTime or
\* Late attendance and as denominator the number of slots holding an attendance
\* of any variant; missing states and pull requests count toward neither, and
\* the numerator never exceeds the denominator.
C15_AttendanceFraction ==
    report.scored =>
        /\ report.attendance.numerator = Cardinality(AttendedAs({"OnTime", "Late"}))
        /\ report.attendance.denominator = Cardinality(AttendedAs(AttendanceKinds))
        /\ report.attendance.numerator <= report.attendance.denominator

\* A scored trainee with a late and a wrong-day attendance, a pull request and a
\* missing assignment.
C15_Witness ==
    /\ report.scored
    /\ AttendedAs({"Late"}) # {}
    /\ AttendedAs({"WrongDay"}) # {}
    /\ PullRequestsOf(Optionalities, PrStates) # {}
    /\ MissingOf("MissingButExpected", AssignmentTypes) # {}


\* ------------------------------------------------------------------------
\* parse_issue
\* ------------------------------------------------------------------------
\* The emoji that start the sprint and the priority labels stand as one
\* character each.
SprintLabelPrefix ==
    <<"#calendar"," ","S","p","r","i","n","t"," ">>

SubmitLabelPrefix ==
    <<"S","u","b","m","i","t",":">>

PriorityMandatoryLabel ==
    <<"#tent"," ","P","r","i","o","r","i","t","y"," ","M","a","n","d","a","t",
      "o","r","y">>

PriorityStretchLabel ==
    <<"#island"," ","P","r","i","o","r","i","t","y"," ","S","t","r","e","t",
      "c","h">>

\* Option<&str>
NoneStr == [is_some |-> FALSE, value |-> <<>>]
SomeStr(s) == [is_some |-> TRUE, value |-> s]

strip_prefix(s, p) ==
    IF starts_with(s, p) THEN SomeStr(SubSeq(s, Len(p) + 1, Len(s))) ELSE NoneStr

\* NonZeroUsize::from_str: an optional plus sign, then ASCII digits; zero is an
\* error.  -1 stands for Err.
nonzero_usize_from_str(s) ==
    LET digits == IF s # <<>> /\ Head(s) = "+" THEN Tail(s) ELSE s
        n == usize_from_str(digits)
    IN IF n <= 0 THEN -1 ELSE n

\* Result<Option<(NonZeroUsize, Option<Assignment>)>, Error>
ParseUserFacing(message, html_url) ==
    [ok |-> FALSE, error |-> "UserFacing", message |-> message, url |-> html_url,
     is_some |-> FALSE, sprint |-> 0, has_assignment |-> FALSE,
     assignment |-> NoAssignment]

ParseNone ==
    [ok |-> TRUE, error |-> "", message |-> "", url |-> "",
     is_some |-> FALSE, sprint |-> 0, has_assignment |-> FALSE,
     assignment |-> NoAssignment]

ParseSome(sprint, has_assignment, assignment) ==
    [ok |-> TRUE, error |-> "", message |-> "", url |-> "",
     is_some |-> TRUE, sprint |-> sprint, has_assignment |-> has_assignment,
     assignment |-> assignment]

NoLabels == [sprints |-> <<>>, submit_label |-> NoneStr, optionality |-> "", error |-> ""]

\* The loop over the labels; it ends at the first label that is an error.
RECURSIVE label_loop(_, _)
label_loop(labels, st) ==
    IF labels = <<>> THEN st
    ELSE LET label == Head(labels)
             sprint_number == strip_prefix(label, SprintLabelPrefix)
             number == nonzero_usize_from_str(sprint_number.value)
             submit == strip_prefix(label, SubmitLabelPrefix)
             priority == IF label = PriorityMandatoryLabel THEN "Mandatory"
                         ELSE IF label = PriorityStretchLabel THEN "Stretch"
                         ELSE ""
         IN IF sprint_number.is_some /\ number = -1
            THEN [st EXCEPT !.error = "sprint label wasn't (non-zero) number"]
            ELSE IF submit.is_some /\ st.submit_label.is_some
            THEN [st EXCEPT !.error = "duplicate submit labels"]
            ELSE IF priority # "" /\ st.optionality # ""
            THEN [st EXCEPT !.error = "duplicate priority labels"]
            ELSE label_loop(Tail(labels),
                    [sprints |-> IF sprint_number.is_some
                                 THEN Append(st.sprints, number) ELSE st.sprints,
                     submit_label |-> IF submit.is_some THEN submit ELSE st.submit_label,
                     optionality |-> IF priority # "" THEN priority ELSE st.optionality,
                     error |-> ""])

StrPR == <<"P","R">>
StrNone == <<"N","o","n","e">>
StrCodility == <<"C","o","d","i","l","i","t","y">>
StrIssue == <<"I","s","s","u","e">>
StrSlack == <<"S","l","a","c","k">>


\* Mutant: an unrecognised submit value is taken as one that asks for nothing.
submit_assignment_unknown_is_none(submit_label, title, html_url, opt) ==
    IF submit_label = StrPR
    THEN [recognised |-> TRUE, has_assignment |-> TRUE,
          assignment |-> ExpectedPullRequest(title, html_url, opt)]
    ELSE [recognised |-> TRUE, has_assignment |-> FALSE, assignment |-> NoAssignment]

\* Mutant: the submit value Issue asks for a pull request too.
submit_assignment_issue_expected(submit_label, title, html_url, opt) ==
    IF submit_label \in {StrPR, StrIssue}
    THEN [recognised |-> TRUE, has_assignment |-> TRUE,
          assignment |-> ExpectedPullRequest(title, html_url, opt)]
    ELSE IF submit_label \in {StrNone, StrCodility, StrSlack}
    THEN [recognised |-> TRUE, has_assignment |-> FALSE, assignment |-> NoAssignment]
    ELSE [recognised |-> FALSE, has_assignment |-> FALSE, assignment |-> NoAssignment]

\* The match on the submit label.
submit_assignment(submit_label, title, html_url, opt) ==
    IF submit_label = StrPR
    THEN [recognised |-> TRUE, has_assignment |-> TRUE,
          assignment |-> ExpectedPullRequest(title, html_url, opt)]
    ELSE IF submit_label \in {StrNone, StrCodility, StrIssue, StrSlack}
    THEN [recognised |-> TRUE, has_assignment |-> FALSE, assignment |-> NoAssignment]
    ELSE [recognised |-> FALSE, has_assignment |-> FALSE, assignment |-> NoAssignment]

\* Mutant: of several sprint labels the first one is taken.
select_sprint_first(sprint_numbers, has_assignment) ==
    IF Len(sprint_numbers) >= 1
    THEN [ok |-> TRUE, is_some |-> TRUE, sprint |-> sprint_numbers[1]]
    ELSE IF ~has_assignment
    THEN [ok |-> TRUE, is_some |-> FALSE, sprint |-> 0]
    ELSE [ok |-> FALSE, is_some |-> FALSE, sprint |-> 0]

\* The match on the sprint labels: exactly one, or none when nothing is asked for.
select_sprint(sprint_numbers, has_assignment) ==
    IF Len(sprint_numbers) = 1
    THEN [ok |-> TRUE, is_some |-> TRUE, sprint |-> sprint_numbers[1]]
    ELSE IF sprint_numbers = <<>> /\ ~has_assignment
    THEN [ok |-> TRUE, is_some |-> FALSE, sprint |-> 0]
    ELSE [ok |-> FALSE, is_some |-> FALSE, sprint |-> 0]

\* An issue: [pull_request, labels, title, html_url].
parse_issue(issue) ==
    IF issue.pull_request THEN ParseNone
    ELSE LET st == label_loop(issue.labels, NoLabels)
             submit == submit_assignment(st.submit_label.value, issue.title,
                                         issue.html_url, st.optionality)
             sprint == select_sprint(st.sprints, submit.has_assignment)
         IN IF st.error # "" THEN ParseUserFacing(st.error, issue.html_url)
            ELSE IF ~st.submit_label.is_some
            THEN ParseUserFacing("no submit label", issue.html_url)
            ELSE IF st.optionality = ""
            THEN ParseUserFacing("no priority label", issue.html_url)
            ELSE IF ~submit.recognised
            THEN ParseUserFacing("submit label wasn't recognised", issue.html_url)
            ELSE IF ~sprint.ok
            THEN ParseUserFacing("expected exactly one sprint label", issue.html_url)
            ELSE IF ~sprint.is_some THEN ParseNone
            ELSE ParseSome(sprint.sprint, submit.has_assignment, submit.assignment)

\* ------------------------------------------------------------------------
\* fetch_module_assignments
\* ------------------------------------------------------------------------
\* The order of the bytes of the characters used in titles.
ByteOrder ==
    <<" ", ".">> \o AsciiDigits \o Uppers \o <<"_">> \o Lowers \o <<"|">>

ByteOf(c) == CHOOSE i \in DOMAIN ByteOrder : ByteOrder[i] = c

\* String's Ord: a <= b
RECURSIVE str_le(_, _)
str_le(a, b) ==
    IF a = <<>> THEN TRUE
    ELSE IF b = <<>> THEN FALSE
    ELSE IF Head(a) = Head(b) THEN str_le(Tail(a), Tail(b))
    ELSE ByteOf(Head(a)) < ByteOf(Head(b))

\* x goes after every element whose title is not greater: the sort is stable.
RECURSIVE insert_by_title(_, _)
insert_by_title(sorted, x) ==
    IF sorted = <<>> THEN <<x>>
    ELSE IF str_le(Head(sorted).title, x.title)
    THEN <<Head(sorted)>> \o insert_by_title(Tail(sorted), x)
    ELSE <<x>> \o sorted

RECURSIVE sort_loop(_, _)
sort_loop(list, sorted) ==
    IF list = <<>> THEN sorted
    ELSE sort_loop(Tail(list), insert_by_title(sorted, Head(list)))

\* Mutant: the issues are kept in the order in which they arrived.
sort_by_title_arrival(list) == list

\* issues.sort_by_cached_key(title)
sort_by_title(list) == sort_loop(list, <<>>)

\* Result<Vec<Vec<Assignment>>, Error>
FetchOk(assignments) ==
    [ok |-> TRUE, sprints |-> assignments, error |-> "", message |-> "", url |-> ""]

FetchErr(error, message, html_url) ==
    [ok |-> FALSE, sprints |-> <<>>, error |-> error, message |-> message,
     url |-> html_url]

\* Mutant: an assignment beyond the module's sprints goes into the last sprint.
fetch_step_clamps(assignments, issue, r) ==
    IF ~r.ok THEN FetchErr(r.error, r.message, r.url)
    ELSE IF ~r.is_some \/ ~r.has_assignment \/ assignments = <<>>
    THEN FetchOk(assignments)
    ELSE LET i == IF r.sprint > Len(assignments) THEN Len(assignments) ELSE r.sprint
         IN FetchOk([assignments EXCEPT ![i] = Append(@, r.assignment)])

\* One iteration of the loop over the sorted issues.
fetch_step(assignments, issue, r) ==
    IF ~r.ok THEN FetchErr(r.error, r.message, r.url)
    ELSE IF ~r.is_some THEN FetchOk(assignments)
    ELSE LET index == r.sprint - 1
         IN IF Len(assignments) <= index
            THEN FetchErr("Fatal", "module only has fewer sprints", issue.html_url)
            ELSE IF r.has_assignment
            THEN FetchOk([assignments EXCEPT ![index + 1] = Append(@, r.assignment)])
            ELSE FetchOk(assignments)


\* ------------------------------------------------------------------------
\* with_assignments: the course is built from the schedule and the issues
\* ------------------------------------------------------------------------
\* course_schedule[k] = [dates, issues]: the class dates of the sprints of module
\* k and the issues of its repository in the order they arrive.
Building == [state |-> "building", modules |-> <<>>, error |-> "", url |-> ""]

sorted_issues_of(schedule, k) ==
    IF k \in DOMAIN schedule THEN sort_by_title(schedule[k].issues) ELSE <<>>

\* std::iter::repeat_with(Vec::new).take(sprint_count)
empty_sprints_of(schedule, k) ==
    IF k \in DOMAIN schedule THEN [i \in 1..Len(schedule[k].dates) |-> <<>>] ELSE <<>>

\* The modules with their attendance assignments, extended by the fetched ones.
built_modules(schedule, results) ==
    [k \in DOMAIN schedule |->
        [sprints |-> [i \in 1..Len(schedule[k].dates) |->
            [assignments |-> <<AttendanceAssignment(schedule[k].dates[i])>>
                                 \o results[k].sprints[i],
             dates |-> schedule[k].dates[i]]]]]

\* The loop over the zipped modules and results: the first Err is returned.
with_assignments(schedule, results) ==
    IF \E k \in DOMAIN results : ~results[k].ok
    THEN LET k == CHOOSE j \in DOMAIN results :
                      ~results[j].ok /\ \A i \in 1..(j - 1) : results[i].ok
         IN [state |-> "Err", modules |-> <<>>, error |-> results[k].error,
             url |-> results[k].url]
    ELSE [state |-> "Ok", modules |-> built_modules(schedule, results),
          error |-> "", url |-> ""]

\* The fetch of a module ends with res; the fetch of the next module starts.
FinishFetch(res) ==
    /\ fetch_results' = Append(fetch_results, res)
    /\ issues' = sorted_issues_of(course_schedule, Len(fetch_results) + 2)
    /\ fetch_sprints' = empty_sprints_of(course_schedule, Len(fetch_results) + 2)

\* fetch_module_assignments: one iteration of the loop over the sorted issues.
ParseIssue ==
    /\ course.state = "building"
    /\ Len(fetch_results) < Len(course_schedule)
    /\ issues # <<>>
    /\ LET issue == Head(issues)
           r == parse_issue(issue)
           step == fetch_step(fetch_sprints, issue, r)
       IN /\ parsed' = [called |-> TRUE, issue |-> issue, result |-> r]
          /\ IF step.ok
             THEN /\ issues' = Tail(issues)
                  /\ fetch_sprints' = step.sprints
                  /\ UNCHANGED fetch_results
             ELSE FinishFetch(step)
    /\ UNCHANGED <<course_schedule, course>>
    /\ UNCHANGED <<module, region, attendance, now, pool, prs, sprints, unknown_prs,
                   sprint_index, result, trainee_vars, library_vars>>

\* fetch_module_assignments: every issue is parsed, Ok(sprints).
FetchReturn ==
    /\ course.state = "building"
    /\ Len(fetch_results) < Len(course_schedule)
    /\ issues = <<>>
    /\ FinishFetch(FetchOk(fetch_sprints))
    /\ UNCHANGED <<course_schedule, parsed, course>>
    /\ UNCHANGED <<module, region, attendance, now, pool, prs, sprints, unknown_prs,
                   sprint_index, result, trainee_vars, library_vars>>

\* with_assignments: every module's fetch has ended.
WithAssignments ==
    /\ course.state = "building"
    /\ Len(fetch_results) = Len(course_schedule)
    /\ course' = with_assignments(course_schedule, fetch_results)
    /\ UNCHANGED <<course_schedule, issues, fetch_sprints, fetch_results, parsed>>
    /\ UNCHANGED <<module, region, attendance, now, pool, prs, sprints, unknown_prs,
                   sprint_index, result, trainee_vars, library_vars>>

NextCourse ==
    \/ ParseIssue
    \/ FetchReturn
    \/ WithAssignments

\* No pull request is being matched.
NoMatching ==
    /\ module = [sprints |-> <<>>]
    /\ region = "london"
    /\ attendance = <<>>
    /\ now = Today
    /\ pool = {}
    /\ prs = <<>>
    /\ sprints = <<>>
    /\ unknown_prs = <<>>
    /\ sprint_index = None
    /\ result = "none"

\* with_assignments is entered with schedule; the first module's fetch starts.
CourseStarts(schedule) ==
    /\ course_schedule = schedule
    /\ issues = sorted_issues_of(schedule, 1)
    /\ fetch_sprints = empty_sprints_of(schedule, 1)
    /\ fetch_results = <<>>
    /\ parsed = NoParsed
    /\ course = Building


\* ------------------------------------------------------------------------
\* Issues and schedules the course is built from
\* ------------------------------------------------------------------------
MaxSprintLabels == 2
MaxIssues == 2

SprintLabel(suffix) == SprintLabelPrefix \o suffix
SubmitLabel(value) == SubmitLabelPrefix \o value

SprintSuffixes == {<<"1">>, <<"2">>, <<"+","1">>, <<"x">>, <<"0">>}
SubmitValues ==
    {StrPR, StrNone, StrCodility, StrIssue, StrSlack, <<"Q","u","i","z">>, <<" ","P","R">>}

SprintLabelLists == SeqsUpTo({SprintLabel(s) : s \in SprintSuffixes}, MaxSprintLabels)

SubmitLabelLists ==
    {<<>>} \cup {<<SubmitLabel(v)>> : v \in SubmitValues}
           \cup {<<SubmitLabel(v), SubmitLabel(StrPR)>> : v \in SubmitValues}

PriorityLabelLists == SeqsUpTo({PriorityMandatoryLabel, PriorityStretchLabel}, 2)

Reverse(s) == [i \in 1..Len(s) |-> s[Len(s) + 1 - i]]

LabelLists ==
    LET forward == {a \o b \o c : a \in SprintLabelLists, b \in SubmitLabelLists,
                                  c \in PriorityLabelLists}
    IN forward \cup {Reverse(l) : l \in forward}

Issue(pull_request, labels, title, html_url) ==
    [pull_request |-> pull_request, labels |-> labels, title |-> title,
     html_url |-> html_url]

\* A module of MaxSprints sprints whose repository holds one issue.
ParseModules ==
    {[dates |-> [i \in 1..MaxSprints |-> NoDates],
      issues |-> <<Issue(p, l, <<"A">>, "issue/1")>>] :
        p \in BOOLEAN, l \in LabelLists}

\* Issues of a repository with several of them.
CourseIssues ==
    {Issue(FALSE, <<SprintLabel(<<"1">>), SubmitLabel(StrPR), PriorityMandatoryLabel>>,
           <<"B">>, "issue/2"),
     Issue(FALSE, <<SprintLabel(<<"2">>), SubmitLabel(StrPR), PriorityStretchLabel>>,
           <<"A">>, "issue/3"),
     Issue(FALSE, <<SprintLabel(<<"2","5">>), SubmitLabel(StrPR), PriorityMandatoryLabel>>,
           <<"C">>, "issue/4"),
     Issue(FALSE, <<SprintLabel(<<"3">>), SubmitLabel(StrNone), PriorityMandatoryLabel>>,
           <<"D">>, "issue/5"),
     Issue(FALSE, <<SprintLabel(<<"1">>), SubmitLabel(StrPR)>>,
           <<"E">>, "issue/6"),
     Issue(TRUE, <<SprintLabel(<<"2","5">>)>>,
           <<"F">>, "issue/7"),
     Issue(FALSE, <<SprintLabel(<<"1">>), SubmitLabel(StrPR), PriorityStretchLabel>>,
           <<"A">>, "issue/10"),
     Issue(FALSE, <<SprintLabel(<<"1">>), SubmitLabel(StrPR), PriorityStretchLabel>>,
           <<"B">>, "issue/11")}

CourseModules ==
    {[dates |-> [i \in 1..n |-> NoDates], issues |-> l] :
        n \in 1..MaxSprints, l \in SeqsUpTo(CourseIssues, MaxIssues)}

\* The other module of a schedule of two: one that is fetched, one whose issue
\* has no submit label.
Companions ==
    {[dates |-> <<NoDates>>,
      issues |-> <<Issue(FALSE, <<SprintLabel(<<"1">>), SubmitLabel(StrPR),
                                  PriorityStretchLabel>>, <<"G">>, "issue/8")>>],
     [dates |-> <<NoDates>>,
      issues |-> <<Issue(FALSE, <<SprintLabel(<<"1">>), PriorityStretchLabel>>,
                         <<"H">>, "issue/9")>>]}

CourseSchedules ==
    {<<m>> : m \in ParseModules \cup CourseModules}
        \cup {<<m, c>> : m \in CourseModules, c \in Companions}
        \cup {<<c, m>> : m \in CourseModules, c \in Companions}

InitCourse ==
    /\ NoMatching
    /\ NoTrainee
    /\ NoLibraryCall
    /\ \E schedule \in CourseSchedules : CourseStarts(schedule)

SpecCourse == InitCourse /\ [][NextCourse]_vars


\* ------------------------------------------------------------------------
\* Properties of parse_issue and of the course that is built
\* ------------------------------------------------------------------------
\* The labels of an issue, by what they say.
SprintLabelsOf(issue) ==
    {i \in DOMAIN issue.labels : starts_with(issue.labels[i], SprintLabelPrefix)}

SprintSuffixOf(issue, i) ==
    SubSeq(issue.labels[i], Len(SprintLabelPrefix) + 1, Len(issue.labels[i]))

\* A decimal number other than zero, with or without a plus sign.
IsNonZeroInteger(suffix) ==
    LET digits == IF suffix # <<>> /\ Head(suffix) = "+" THEN Tail(suffix) ELSE suffix
    IN /\ digits # <<>>
       /\ \A i \in DOMAIN digits : digits[i] \in Range(AsciiDigits)
       /\ \E i \in DOMAIN digits : digits[i] # "0"

NumberedSprintLabelsOf(issue) ==
    {i \in SprintLabelsOf(issue) : IsNonZeroInteger(SprintSuffixOf(issue, i))}

SubmitLabelsOf(issue) ==
    {i \in DOMAIN issue.labels : starts_with(issue.labels[i], SubmitLabelPrefix)}

SubmitValuesOf(issue) ==
    {SubSeq(issue.labels[i], Len(SubmitLabelPrefix) + 1, Len(issue.labels[i])) :
        i \in SubmitLabelsOf(issue)}

PriorityLabelsOf(issue) ==
    {i \in DOMAIN issue.labels :
        issue.labels[i] \in {PriorityMandatoryLabel, PriorityStretchLabel}}

\* The issue is not a pull request, its sprint labels are numbered, it has one
\* submit label, of a value among values, and one priority label.
LabelledIssue(issue, values) ==
    /\ ~issue.pull_request
    /\ SprintLabelsOf(issue) = NumberedSprintLabelsOf(issue)
    /\ Cardinality(SubmitLabelsOf(issue)) = 1
    /\ SubmitValuesOf(issue) \subseteq values
    /\ Cardinality(PriorityLabelsOf(issue)) = 1

MultiSprintIssue(issue) ==
    /\ LabelledIssue(issue, {StrPR})
    /\ Cardinality(SprintLabelsOf(issue)) >= 2

\* parse_issue returned a user-facing error that names the issue.
UserFacingFor(r, issue) ==
    /\ ~r.ok
    /\ r.error = "UserFacing"
    /\ r.url = issue.html_url

\* C16 (as stated): an issue with two or more sprint labels, the submit label
\* PR and one priority label is parsed successfully into sprints and assignment.
C16_MultipleSprintLabelsPermitted ==
    (parsed.called /\ MultiSprintIssue(parsed.issue))
        => (parsed.result.ok /\ parsed.result.is_some)

\* C16 (amended): an issue with two or more sprint labels, the submit label PR
\* and one priority label is a user-facing error that names the issue; the
\* fetch of its module fails and no course is built.
C16_MultipleSprintLabelsRejected ==
    (parsed.called /\ MultiSprintIssue(parsed.issue))
        => /\ UserFacingFor(parsed.result, parsed.issue)
           /\ \E k \in DOMAIN fetch_results :
                 /\ ~fetch_results[k].ok
                 /\ fetch_results[k].error = "UserFacing"
                 /\ fetch_results[k].url = parsed.issue.html_url
           /\ course.state # "Ok"

\* C16 witness: the issue labelled Sprint 1, Sprint 2, Submit:PR and Mandatory
\* was parsed and the course has failed.
C16_Witness ==
    /\ parsed.called
    /\ parsed.issue.labels = <<SprintLabel(<<"1">>), SprintLabel(<<"2">>),
                               SubmitLabel(StrPR), PriorityMandatoryLabel>>
    /\ ~parsed.issue.pull_request
    /\ course.state = "Err"
    /\ course.error = "UserFacing"

\* C17 (as stated): an issue whose submit value is None, Codility, Issue or
\* Slack is parsed without error whether it has none, one or two priority labels.
C17_PriorityOnlyNeededForPr ==
    (/\ parsed.called
     /\ ~parsed.issue.pull_request
     /\ SprintLabelsOf(parsed.issue) = NumberedSprintLabelsOf(parsed.issue)
     /\ Cardinality(SprintLabelsOf(parsed.issue)) <= 1
     /\ Cardinality(SubmitLabelsOf(parsed.issue)) = 1
     /\ SubmitValuesOf(parsed.issue) \subseteq {StrNone, StrCodility, StrIssue, StrSlack})
        => parsed.result.ok


RecognisedSubmitValues == {StrNone, StrPR, StrCodility, StrIssue, StrSlack}

\* C18: parse_issue on an issue that is not a pull request returns a
\* user-facing error that names the issue, and no course is built, whenever the
\* issue has two or more submit labels, has no submit label, has a submit value
\* that is not None, PR, Codility, Issue or Slack, or has a sprint label whose
\* suffix is not a number other than zero.
C18_BadLabelsAreUserFacingErrors ==
    (/\ parsed.called
     /\ ~parsed.issue.pull_request
     /\ \/ Cardinality(SubmitLabelsOf(parsed.issue)) >= 2
        \/ SubmitLabelsOf(parsed.issue) = {}
        \/ ~(SubmitValuesOf(parsed.issue) \subseteq RecognisedSubmitValues)
        \/ SprintLabelsOf(parsed.issue) # NumberedSprintLabelsOf(parsed.issue))
        => /\ UserFacingFor(parsed.result, parsed.issue)
           /\ course.state # "Ok"

\* C18 witness: an issue labelled Sprint 1, Submit:Quiz and Mandatory was
\* parsed, its submit label was not recognised, and the course has failed.
C18_Witness ==
    /\ parsed.called
    /\ ~parsed.issue.pull_request
    /\ parsed.issue.labels = <<SprintLabel(<<"1">>), SubmitLabel(<<"Q","u","i","z">>),
                               PriorityMandatoryLabel>>
    /\ parsed.result.message = "submit label wasn't recognised"
    /\ course.state = "Err"
    /\ course.url = parsed.issue.html_url

\* The step of the fetch that parses the issue at the head of the list.
ParsingHead ==
    /\ course.state = "building"
    /\ Len(fetch_results) < Len(course_schedule)
    /\ issues # <<>>

C19_Step ==
    LET issue == Head(issues)
        n == nonzero_usize_from_str(
                 SprintSuffixOf(issue, CHOOSE i \in SprintLabelsOf(issue) : TRUE))
        opt == IF \E i \in DOMAIN issue.labels : issue.labels[i] = PriorityMandatoryLabel
               THEN "Mandatory" ELSE "Stretch"
        expected == ExpectedPullRequest(issue.title, issue.html_url, opt)
    IN ParsingHead =>
        /\ (LabelledIssue(issue, {StrPR}) /\ Cardinality(SprintLabelsOf(issue)) = 1)
              => /\ parsed'.result = ParseSome(n, TRUE, expected)
                 /\ n <= Len(fetch_sprints)
                       => /\ fetch_results' = fetch_results
                          /\ fetch_sprints' =
                                [fetch_sprints EXCEPT ![n] = Append(@, expected)]
        /\ (/\ LabelledIssue(issue, {StrNone, StrCodility, StrIssue, StrSlack})
            /\ Cardinality(SprintLabelsOf(issue)) <= 1)
              => /\ parsed'.result.ok
                 /\ ~parsed'.result.has_assignment
                 /\ fetch_results' = fetch_results => fetch_sprints' = fetch_sprints
        /\ issue.pull_request
              => /\ parsed'.result = ParseNone
                 /\ fetch_results' = fetch_results
                 /\ fetch_sprints' = fetch_sprints
                 /\ issues' = Tail(issues)

\* C19: for an issue with one numbered sprint label, one submit label and one
\* priority label, the submit value PR gives an ExpectedPullRequest with the
\* issue's title, URL and the optionality of the priority label, added to the
\* labelled sprint; the values None, Codility, Issue and Slack add no
\* assignment to any sprint; an issue that is a pull request adds nothing and
\* is no error, whatever its labels.
C19_SubmitValueDecidesAssignment == [][C19_Step]_vars

\* C19 witness: a course was built whose second sprint holds, after the
\* attendance, the stretch pull request expected by the issue last parsed.
C19_Witness ==
    /\ parsed.called
    /\ ~parsed.issue.pull_request
    /\ parsed.result.ok
    /\ parsed.result.has_assignment
    /\ parsed.result.sprint = 2
    /\ course.state = "Ok"
    /\ course.modules[1].sprints[2].assignments =
          <<AttendanceAssignment(NoDates),
            ExpectedPullRequest(parsed.issue.title, parsed.issue.html_url, "Stretch")>>

\* The issue would be parsed into a sprint the module of n sprints does not have.
OutOfRange(issue, n) ==
    /\ ~issue.pull_request
    /\ parse_issue(issue).ok
    /\ parse_issue(issue).is_some
    /\ parse_issue(issue).sprint > n

\* The issue ends no fetch.
Fine(issue, n) ==
    \/ issue.pull_request
    \/ /\ parse_issue(issue).ok
       /\ parse_issue(issue).is_some => parse_issue(issue).sprint <= n

SortedIssues(k) == sort_by_title(course_schedule[k].issues)
SprintCount(k) == Len(course_schedule[k].dates)

EveryIssueFine(k) ==
    \A p \in DOMAIN SortedIssues(k) : Fine(SortedIssues(k)[p], SprintCount(k))

\* The first issue of module k, in the order of the titles, that is not fine.
FirstFailing(k) ==
    LET s == SortedIssues(k)
        p == CHOOSE i \in DOMAIN s :
                 /\ ~Fine(s[i], SprintCount(k))
                 /\ \A q \in 1..(i - 1) : Fine(s[q], SprintCount(k))
    IN s[p]

\* The fetch of module k parses an issue whose sprint the module does not have.
ParsedOutOfRange(k) ==
    /\ ~EveryIssueFine(k)
    /\ OutOfRange(FirstFailing(k), SprintCount(k))

\* C20 (as stated): when an issue parsed for some module has a sprint number
\* above the number of sprints of the module, building the course fails with a
\* Fatal error.
C20_OutOfRangeSprintIsFatal ==
    (/\ course.state # "building"
     /\ \E k \in DOMAIN course_schedule : ParsedOutOfRange(k))
        => /\ course.state = "Err"
           /\ course.error = "Fatal"

\* C20 (amended): when an issue parsed for some module has a sprint number
\* above the number of sprints of the module, building the course fails; the
\* error is the one of the first module of the schedule whose fetch failed:
\* Fatal, naming the issue, when that module is the one with the issue out of
\* range, and the user-facing error of the earlier module otherwise.
C20_OutOfRangeSprintFailsCourse ==
    (/\ course.state # "building"
     /\ \E k \in DOMAIN course_schedule : ParsedOutOfRange(k))
        => LET first == CHOOSE k \in DOMAIN course_schedule :
                            /\ ~EveryIssueFine(k)
                            /\ \A j \in 1..(k - 1) : EveryIssueFine(j)
           IN /\ course.state = "Err"
              /\ course.modules = <<>>
              /\ course.url = FirstFailing(first).html_url
              /\ course.error = IF ParsedOutOfRange(first) THEN "Fatal" ELSE "UserFacing"

\* C20 witness: the second module of a schedule has one sprint and an issue
\* labelled Sprint 25, the first module was fetched, and the course failed
\* with a Fatal error that names the issue.
C20_Witness ==
    /\ Len(course_schedule) = 2
    /\ EveryIssueFine(1)
    /\ SprintCount(2) = 1
    /\ ParsedOutOfRange(2)
    /\ SprintLabel(<<"2","5">>) \in Range(FirstFailing(2).labels)
    /\ course.state = "Err"
    /\ fetch_results[1].ok
    /\ course.error = "Fatal"
    /\ course.url = FirstFailing(2).html_url


\* The positions, in the issues of module k as they arrived, of the issues
\* that parse_issue turns into the assignment a of sprint i.
IssuesGiving(k, i, a) ==
    {j \in DOMAIN course_schedule[k].issues :
        LET r == parse_issue(course_schedule[k].issues[j])
        IN r.ok /\ r.is_some /\ r.has_assignment /\ r.sprint = i /\ r.assignment = a}

\* The assignments parse_issue gives for sprint i of module k.
ParsedFor(k, i) ==
    {parse_issue(course_schedule[k].issues[j]).assignment :
        j \in {j \in DOMAIN course_schedule[k].issues :
                 LET r == parse_issue(course_schedule[k].issues[j])
                 IN r.ok /\ r.is_some /\ r.has_assignment /\ r.sprint = i}}

MaxTitleLen == 3

Delimiters == {" ", "_", "-", "/", "|"}

TitleChars == {"a", "B", "."} \cup Delimiters

\* "alarm clock.", "a b a", "Alarm_Clock-a/b|c alarm", "b. ", "a b.."
TitleExamples ==
    {<<"a","l","a","r","m"," ","c","l","o","c","k",".">>,
     <<"a"," ","b"," ","a">>,
     <<"A","l","a","r","m","_","C","l","o","c","k","-","a","/","b","|","c"," ",
       "a","l","a","r","m">>,
     <<"b","."," ">>,
     <<"a"," ","b",".",".">>}

Titles == SeqsUpTo(TitleChars, MaxTitleLen) \cup TitleExamples

InitTitle ==
    /\ NoMatching
    /\ NoTrainee
    /\ NoCourseBuild
    /\ raw_title \in Titles
    /\ word_set = NotCalled
    /\ matchable = NotCalled
    /\ in_past = NotCalled
    /\ NoGroups

\* title_word_set(title), as match_pr_to_assignment calls it for a PR title.
TitleWordSet ==
    /\ ~word_set.called
    /\ word_set' = [called |-> TRUE, set |-> title_word_set(raw_title)]
    /\ UNCHANGED <<module, region, attendance, now, pool, prs, sprints, unknown_prs,
                   sprint_index, result, trainee_vars, course_vars>>
    /\ UNCHANGED <<raw_title, matchable, in_past, groups_vars>>

\* make_title_more_matchable(title), as it is called for an assignment title.
MakeTitleMoreMatchable ==
    /\ ~matchable.called
    /\ matchable' = [called |-> TRUE, set |-> make_title_more_matchable(raw_title)]
    /\ UNCHANGED <<module, region, attendance, now, pool, prs, sprints, unknown_prs,
                   sprint_index, result, trainee_vars, course_vars>>
    /\ UNCHANGED <<raw_title, word_set, in_past, groups_vars>>

NextTitle ==
    \/ TitleWordSet
    \/ MakeTitleMoreMatchable

SpecTitle == InitTitle /\ [][NextTitle]_vars

\* The title in lower case.
Lowered(t) == [i \in DOMAIN t |-> LowerChar(t[i])]

\* The positions of the delimiters of t, and the two ends.
Cuts(t) == {0, Len(t) + 1} \cup {i \in DOMAIN t : t[i] \in Delimiters}

\* The pairs of neighbouring cuts: between them lies one token.
Runs(t) ==
    LET cuts == Cuts(t)
    IN {<<b, CHOOSE e \in cuts : b < e /\ \A i \in cuts : ~(b < i /\ i < e)>> :
           b \in cuts \ {Len(t) + 1}}

RunToken(t, c) == SubSeq(Lowered(t), c[1] + 1, c[2] - 1)

\* Where the token is seen first in t.
FirstSeen(t, token) ==
    CHOOSE b \in 0..Len(t) :
        /\ \E c \in Runs(t) : c[1] = b /\ RunToken(t, c) = token
        /\ \A c \in Runs(t) : RunToken(t, c) = token => b <= c[1]

\* C22: title_word_set returns the pieces of the lower-cased title that lie
\* between neighbouring delimiters (space, underscore, hyphen, slash, pipe),
\* each once, in the order in which they are first seen; no token contains a
\* delimiter.
C22_TitleWordSet ==
    word_set.called =>
        /\ Range(word_set.set) = {RunToken(raw_title, c) : c \in Runs(raw_title)}
        /\ \A i, j \in DOMAIN word_set.set :
             i # j => word_set.set[i] # word_set.set[j]
        /\ \A i \in 1..(Len(word_set.set) - 1) :
             FirstSeen(raw_title, word_set.set[i])
                 < FirstSeen(raw_title, word_set.set[i + 1])
        /\ \A i \in DOMAIN word_set.set :
             \A p \in DOMAIN word_set.set[i] :
                 /\ word_set.set[i][p] \notin Delimiters
                 /\ word_set.set[i][p] \notin Range(Uppers)

\* C22 witness: the title "Alarm_Clock-a/b|c alarm" was tokenized into alarm,
\* clock, a, b, c.
C22_Witness ==
    /\ word_set.called
    /\ raw_title = <<"A","l","a","r","m","_","C","l","o","c","k","-","a","/","b",
                     "|","c"," ","a","l","a","r","m">>
    /\ word_set.set = <<<<"a","l","a","r","m">>, <<"c","l","o","c","k">>,
                        <<"a">>, <<"b">>, <<"c">>>>


\* The tokens of a set, in ascending order.
RECURSIVE SortedTokens(_)
SortedTokens(S) ==
    IF S = {} THEN <<>>
    ELSE LET least == CHOOSE x \in S : \A y \in S : str_le(x, y)
         IN <<least>> \o SortedTokens(S \ {least})

\* The tokens joined into one string, d between them.
RECURSIVE Join(_, _)
Join(tokens, d) ==
    IF tokens = <<>> THEN <<>>
    ELSE IF Len(tokens) = 1 THEN tokens[1]
    ELSE tokens[1] \o <<d>> \o Join(Tail(tokens), d)

\* Tokenizing the sorted join of the set gives every token of the set again.
Reproduced(set) ==
    \A d \in Delimiters :
        Range(set) \subseteq Range(title_word_set(Join(SortedTokens(Range(set)), d)))

\* The same with the tokenizer of assignment titles and a space between the
\* tokens.
ReproducedMatchable(set) ==
    Range(set) \subseteq
        Range(make_title_more_matchable(Join(SortedTokens(Range(set)), " ")))

WithoutOnePeriod(t) ==
    IF t # <<>> /\ t[Len(t)] = "." THEN SubSeq(t, 1, Len(t) - 1) ELSE t

\* The title up to its last character that is not a period.
WithoutTrailingPeriods(t) ==
    SubSeq(t, 1, IF \A i \in DOMAIN t : t[i] = "." THEN 0
                 ELSE CHOOSE i \in DOMAIN t :
                          t[i] # "." /\ \A j \in (i + 1)..Len(t) : t[j] = ".")

\* The tokens, and the concatenation of every two neighbours among them.
WithNeighbourPairs(tokens) ==
    Range(tokens) \cup {tokens[i] \o tokens[i + 1] : i \in 1..(Len(tokens) - 1)}

\* C24 (as stated): make_title_more_matchable removes one trailing period,
\* tokenizes, and adds the concatenation of every two tokens that are
\* neighbours in the token set; nothing else is added and nothing is removed.
C24_OnePeriodTrimmed ==
    matchable.called =>
        Range(matchable.set)
            = WithNeighbourPairs(title_word_set(WithoutOnePeriod(raw_title)))

\* C24 (amended): make_title_more_matchable removes every trailing period,
\* tokenizes, and adds the concatenation of every two tokens that are
\* neighbours in the token set, after the tokens, in their order; nothing else
\* is added and nothing is removed.
C24_TrailingPeriodsTrimmed ==
    matchable.called =>
        LET tokens == title_word_set(WithoutTrailingPeriods(raw_title))
        IN /\ Range(matchable.set) = WithNeighbourPairs(tokens)
           /\ SubSeq(matchable.set, 1, Len(tokens)) = tokens
           /\ \A i, j \in DOMAIN matchable.set :
                i # j => matchable.set[i] # matchable.set[j]

\* C24 witness: "alarm clock." gave alarm, clock, alarmclock, and the tokenizer
\* of PR titles kept the period.
C24_Witness ==
    /\ matchable.called
    /\ word_set.called
    /\ raw_title = <<"a","l","a","r","m"," ","c","l","o","c","k",".">>
    /\ matchable.set = <<<<"a","l","a","r","m">>, <<"c","l","o","c","k">>,
                         <<"a","l","a","r","m","c","l","o","c","k">>>>
    /\ word_set.set = <<<<"a","l","a","r","m">>, <<"c","l","o","c","k",".">>>>


\* ------------------------------------------------------------------------
\* Sprint::is_in_past applied to sprints, regions and days
\* ------------------------------------------------------------------------
\* The regions a sprint may have a date for, and the regions of trainees.
DatedRegions == {"london", "glasgow", "unknown"}
PastRegions == DatedRegions \cup {"cape town"}

PastDays == (Today - 1)..(Today + 1)

PastDates == UNION {[R -> PastDays] : R \in SUBSET DatedRegions}

InitPast ==
    /\ \E d \in PastDates : module = [sprints |-> <<SprintOf(d, <<>>)>>]
    /\ region \in PastRegions
    /\ now \in {Today, Today + 1}
    /\ attendance = <<>>
    /\ pool = {}
    /\ prs = <<>>
    /\ sprints = <<>>
    /\ unknown_prs = <<>>
    /\ sprint_index = None
    /\ result = "none"
    /\ NoTrainee
    /\ NoCourseBuild
    /\ NoTitle
    /\ in_past = NotCalled
    /\ NoGroups

\* sprint.is_in_past(region)
IsInPast ==
    /\ ~in_past.called
    /\ in_past' = [called |-> TRUE,
                   value |-> is_in_past(module.sprints[1], region, now)]
    /\ UNCHANGED <<module, region, attendance, now, pool, prs, sprints, unknown_prs,
                   sprint_index, result, trainee_vars, course_vars>>
    /\ UNCHANGED <<title_vars, groups_vars>>

NextPast == IsInPast

SpecPast == InitPast /\ [][NextPast]_vars

\* C25: is_in_past(region) is true for the region "unknown" and for a region
\* the sprint has no date for; for any other region it is true exactly when
\* now >= the sprint's date for that region, whatever the dates of the other
\* regions.
C25_IsInPast ==
    in_past.called =>
        LET dates == module.sprints[1].dates
        IN IF region = "unknown" \/ region \notin DOMAIN dates
           THEN in_past.value = TRUE
           ELSE in_past.value = (now >= dates[region])

\* C25 witness: the sprint's class in London is today and the one in Glasgow
\* is tomorrow; the sprint is in the past for London.
C25_Witness ==
    /\ in_past.called
    /\ in_past.value = TRUE
    /\ region = "london"
    /\ "london" \in DOMAIN module.sprints[1].dates
    /\ "glasgow" \in DOMAIN module.sprints[1].dates
    /\ module.sprints[1].dates["london"] = now
    /\ module.sprints[1].dates["glasgow"] = now + 1


\* ------------------------------------------------------------------------
\* GoogleGroups::expand_recursively
\* ------------------------------------------------------------------------
MaxMembers == 2

RecursionLimit == 15

\* The email addresses, in their order (Ord of EmailAddress).
EmailOrder == <<"g1", "g2", "g3", "u1", "u2">>

Emails == Range(EmailOrder)

\* The addresses that may be those of groups of the collection.
GroupEmails == {"g1", "g2", "g3"}

EmailPosition(e) == CHOOSE i \in DOMAIN EmailOrder : EmailOrder[i] = e

\* The emails of a set in ascending order: the order of iteration of a BTreeSet
\* or of the keys of a BTreeMap.
RECURSIVE in_order(_)
in_order(S) ==
    IF S = {} THEN <<>>
    ELSE LET least == CHOOSE e \in S : \A f \in S : EmailPosition(e) <= EmailPosition(f)
         IN <<least>> \o in_order(S \ {least})

GoogleGroup(email, members) == [email |-> email, members |-> members]

\* self.groups.iter().map(|GoogleGroup { email, .. }| email.clone()).collect()
group_emails(gs) == {g.email : g \in gs}

\* index.insert(group.email.clone(), group.members.clone()) for every group
build_index(gs) ==
    [e \in group_emails(gs) |-> (CHOOSE g \in gs : g.email = e).members]

\* The members of a group that are groups, with the members those have now.
to_replace_of(idx, gs, e) == {m \in idx[e] : m \in group_emails(gs)}

\* for (to_replace, replacements) in replacements: remove, then extend.
RECURSIVE replace_loop(_, _, _)
replace_loop(members, replaced, snapshot) ==
    IF replaced = <<>> THEN members
    ELSE replace_loop((members \ {Head(replaced)}) \cup snapshot[Head(replaced)],
                      Tail(replaced), snapshot)

\* Mutant: a nested group is removed and its members are not added.
replace_pass_drops_members(idx, gs) ==
    [e \in DOMAIN idx |-> idx[e] \ to_replace_of(idx, gs, e)]

\* One pass of the loop over to_replace.
replace_pass(idx, gs) ==
    [e \in DOMAIN idx |-> replace_loop(idx[e], in_order(to_replace_of(idx, gs, e)), idx)]

\* changed: some group has a member to replace.
pass_changes(idx, gs) == \E e \in DOMAIN idx : to_replace_of(idx, gs, e) # {}

MemberSets == {M \in SUBSET Emails : Cardinality(M) <= MaxMembers}

GroupCollections ==
    UNION {{{GoogleGroup(e, f[e]) : e \in G} : f \in [G -> MemberSets]} :
              G \in SUBSET GroupEmails}

InitGroups ==
    /\ NoMatching
    /\ NoTrainee
    /\ NoCourseBuild
    /\ NoTitle
    /\ in_past = NotCalled
    /\ groups \in GroupCollections
    /\ groups_given = groups
    /\ group_index = <<>>
    /\ iteration = 0
    /\ expanded = "none"

\* expand_recursively is entered: the index is built.
ExpandBegin ==
    /\ expanded = "none"
    /\ group_index' = build_index(groups)
    /\ iteration' = 0
    /\ expanded' = "running"
    /\ UNCHANGED <<groups, groups_given>>
    /\ UNCHANGED <<module, region, attendance, now, pool, prs, sprints, unknown_prs,
                   sprint_index, result, trainee_vars, course_vars>>
    /\ UNCHANGED <<title_vars, in_past>>

\* A pass of the loop that replaces members.
ExpandPass ==
    /\ expanded = "running"
    /\ iteration <= RecursionLimit
    /\ pass_changes(group_index, groups)
    /\ group_index' = replace_pass(group_index, groups)
    /\ iteration' = iteration + 1
    /\ UNCHANGED <<groups, groups_given, expanded>>
    /\ UNCHANGED <<module, region, attendance, now, pool, prs, sprints, unknown_prs,
                   sprint_index, result, trainee_vars, course_vars>>
    /\ UNCHANGED <<title_vars, in_past>>

\* The pass after the limit: Err, self.groups is left as it was.
ExpandLimit ==
    /\ expanded = "running"
    /\ iteration > RecursionLimit
    /\ expanded' = "Err"
    /\ UNCHANGED <<groups, groups_given, group_index, iteration>>
    /\ UNCHANGED <<module, region, attendance, now, pool, prs, sprints, unknown_prs,
                   sprint_index, result, trainee_vars, course_vars>>
    /\ UNCHANGED <<title_vars, in_past>>

\* A pass that changes nothing: the groups are rebuilt from the index, Ok.
ExpandReturn ==
    /\ expanded = "running"
    /\ iteration <= RecursionLimit
    /\ ~pass_changes(group_index, groups)
    /\ groups' = {GoogleGroup(e, group_index[e]) : e \in DOMAIN group_index}
    /\ expanded' = "Ok"
    /\ UNCHANGED <<groups_given, group_index, iteration>>
    /\ UNCHANGED <<module, region, attendance, now, pool, prs, sprints, unknown_prs,
                   sprint_index, result, trainee_vars, course_vars>>
    /\ UNCHANGED <<title_vars, in_past>>

NextGroups ==
    \/ ExpandBegin
    \/ ExpandPass
    \/ ExpandLimit
    \/ ExpandReturn

SpecGroups == InitGroups /\ [][NextGroups]_vars


\* The members the group of email e was given with.
GivenMembers(e) == (CHOOSE g \in groups_given : g.email = e).members

\* Every address reached from the set through members that are groups.
RECURSIVE ReachedFrom(_)
ReachedFrom(S) ==
    LET further == S \cup UNION {GivenMembers(e) : e \in S \cap group_emails(groups_given)}
    IN IF further = S THEN S ELSE ReachedFrom(further)

\* The members of e, direct or through nested groups, that are not groups.
NonGroupMembers(e) == ReachedFrom(GivenMembers(e)) \ group_emails(groups_given)

\* C26: when expand_recursively returns Ok, the collection has the same group
\* emails as before, no group has a member that is the email of a group of
\* the collection, the members of every group are exactly the addresses that
\* are not groups and are reached from it through nested groups, and a group
\* that had no nested group is as it was.
C26_ExpandRecursively ==
    expanded = "Ok" =>
        /\ group_emails(groups) = group_emails(groups_given)
        /\ Cardinality(groups) = Cardinality(groups_given)
        /\ \A g \in groups :
             /\ g.members \cap group_emails(groups_given) = {}
             /\ g.members = NonGroupMembers(g.email)
        /\ \A g \in groups_given :
             g.members \cap group_emails(groups_given) = {} => g \in groups

\* C26 witness: g1 held g2 and u1, g2 held g3, g3 held u2; after Ok, g1 holds
\* u1 and u2, g2 holds u2 and g3 is as it was.
C26_Witness ==
    /\ expanded = "Ok"
    /\ groups_given = {GoogleGroup("g1", {"g2", "u1"}), GoogleGroup("g2", {"g3"}),
                       GoogleGroup("g3", {"u2"})}
    /\ groups = {GoogleGroup("g1", {"u1", "u2"}), GoogleGroup("g2", {"u2"}),
                 GoogleGroup("g3", {"u2"})}


\* ------------------------------------------------------------------------
\* Properties of the choice of the slot
\* ------------------------------------------------------------------------
\* A pull request is taken from the list and matched (its title is no fatal one).
PrMatchedInStep == Len(prs') = Len(prs) + 1 /\ result' = "running"

\* The slots the pull request may fill: those of ExpectedPullRequest
\* assignments, not yet submitted, in the claimed sprint or, without a claim,
\* in any sprint.
OpenSlotsFor(pr) ==
    {sa \in ExpectedSlotsOf(module) :
        /\ sprints[sa[1]][sa[2]].kind # "Some"
        /\ ClaimOf(pr).is_some => ClaimOf(pr).value = sa[1] - 1}

\* sa comes before sb in the iteration: lower sprint, then lower assignment.
Earlier(sa, sb) == sa[1] < sb[1] \/ (sa[1] = sb[1] /\ sa[2] < sb[2])

C27_Step ==
    PrMatchedInStep =>
        LET pr == prs'[Len(prs')]
            count == [sa \in OpenSlotsFor(pr) |-> CountFor(pr, sa)]
            positive == {sa \in DOMAIN count : count[sa] > 0}
        IN IF positive = {}
           THEN sprints' = sprints
           ELSE LET chosen == CHOOSE sa \in positive :
                                 \A sb \in positive \ {sa} :
                                     \/ count[sa] > count[sb]
                                     \/ /\ count[sa] = count[sb]
                                        /\ Earlier(sa, sb)
                IN \A s \in DOMAIN sprints : \A a \in DOMAIN sprints[s] :
                      sprints'[s][a] =
                          IF <<s, a>> = chosen
                          THEN SomeState(PullRequestSubmission(pr,
                                   AssignmentAt(chosen).optionality))
                          ELSE sprints[s][a]

\* C27: the slot a pull request fills is, among the open ExpectedPullRequest
\* slots of its candidate sprints with a match_count above 0, one with the
\* greatest match_count, and among those the earliest in iteration order; when
\* there is none, no slot changes.
C27_BestMatchSelection == [][C27_Step]_vars

\* C27 witness: the pull request titled "B" fills the first of two open slots
\* of sprint 1 that have the same match_count for it, and the pull request
\* titled "a_b" fills a later slot for which its match_count is greater than
\* for an open slot before it.
C27_Witness ==
    /\ Len(prs) = 2
    /\ result = "running"
    /\ prs[1].title = <<"B">>
    /\ prs[2].title = <<"a","_","b">>
    /\ <<1, 2>> \in Slots
    /\ <<1, 3>> \in Slots
    /\ HoldsPr(<<1, 2>>, prs[1])
    /\ CountFor(prs[1], <<1, 2>>) = CountFor(prs[1], <<1, 3>>)
    /\ HoldsPr(<<1, 3>>, prs[2])


\* The tokens sprintN and weekN of a claim for sprint N (sprint index N - 1).
SprintToken(claim) == StrSprint \o usize_to_string(claim.value + 1)
WeekToken(claim) == StrWeek \o usize_to_string(claim.value + 1)

\* C28: for every pull request matched and every ExpectedPullRequest
\* assignment, the token set of the assignment is that of its title, with
\* sprintN and weekN added when the pull request claims sprint N and the title's
\* token set holds the token "sprint", and with nothing added otherwise; the
\* token set of the pull request is that of its title, with sprintN (and
\* nothing else) added exactly when it has a claim.
C28_ClaimTokens ==
    \A k \in Matched : \A sa \in ExpectedSlotsOf(module) :
        LET claim == ClaimOf(prs[k])
            title_tokens == Range(make_title_more_matchable(AssignmentAt(sa).title))
            assignment_tokens == Range(assignment_title_words(AssignmentAt(sa).title, claim))
            pr_tokens == Range(pr_title_words(prs[k], claim))
        IN /\ assignment_tokens =
                 IF claim.is_some /\ StrSprint \in title_tokens
                 THEN title_tokens \cup {SprintToken(claim), WeekToken(claim)}
                 ELSE title_tokens
           /\ pr_tokens =
                 IF claim.is_some
                 THEN Range(title_word_set(prs[k].title)) \cup {SprintToken(claim)}
                 ELSE Range(title_word_set(prs[k].title))

\* C28 witness: the pull request "Sprint 2 | b" fills the slot of the
\* assignment "Sprint b c." of sprint 2 with the match_count 3 (sprint, b and
\* sprint2), while its match_count for the assignment "a b" of the same sprint,
\* which gains no token, is 1.
C28_Witness ==
    /\ result = "Ok"
    /\ \E k \in DOMAIN prs : \E sa, sb \in ExpectedSlotsOf(module) :
          /\ ClaimOf(prs[k]) = Some(1)
          /\ sa[1] = 2 /\ sb[1] = 2
          /\ AssignmentAt(sa).title = ExpectedTitleSprintBC
          /\ AssignmentAt(sb).title = ExpectedTitleAB
          /\ HoldsPr(sa, prs[k])
          /\ CountFor(prs[k], sa) = 3
          /\ CountFor(prs[k], sb) = 1
          /\ WeekToken(ClaimOf(prs[k])) \notin Range(pr_title_words(prs[k], ClaimOf(prs[k])))


\* The slots that hold a pull request for which pr has a greater match_count
\* than the pull request they hold.
SlotsWantedMore(pr) ==
    {sa \in Slots :
        /\ HoldsSomePr(sa)
        /\ AssignmentAt(sa).type = "ExpectedPullRequest"
        /\ ~skip_sprint(ClaimOf(pr), sa[1] - 1)
        /\ CountFor(pr, sa) > CountFor(sprints[sa[1]][sa[2]].submission.pull_request, sa)}

C29_Step ==
    PrMatchedInStep =>
        \A sa \in SlotsWantedMore(prs'[Len(prs')]) :
            sprints'[sa[1]][sa[2]] = sprints[sa[1]][sa[2]]

\* C29: pull requests are resolved one at a time in the order of the list, and
\* a slot taken by a pull request stays with it when a later pull request of
\* the list has a strictly greater match_count for that slot.
C29_EarlierPrKeepsSlot == [][C29_Step]_vars

\* The call on the two pull requests of the list in the other order.
Swapped == match_prs_to_assignments(module, <<prs[2], prs[1]>>, attendance, region, now)

\* C29 witness: of two pull requests the first took a slot for which the
\* second has a greater match_count, and the second is in unknown_prs; the same
\* two pull requests in the other order give the slot to the other one and
\* leave the first in unknown_prs.
C29_Witness ==
    /\ result = "Ok"
    /\ Len(prs) = 2
    /\ \E sa \in Slots :
          /\ HoldsPr(sa, prs[1])
          /\ CountFor(prs[2], sa) > CountFor(prs[1], sa)
          /\ Len(unknown_prs) = 1
          /\ unknown_prs[1].title = prs[2].title
          /\ Swapped.ok
          /\ Swapped.sprints[sa[1]][sa[2]].kind = "Some"
          /\ Swapped.sprints[sa[1]][sa[2]].submission.pull_request.title = prs[2].title
          /\ Len(Swapped.unknown_prs) = 1
          /\ Swapped.unknown_prs[1].title = prs[1].title
          /\ prs[1].title # prs[2].title

\* The attendance handed over holds no pull request submission.
NoPrInAttendance ==
    \A i \in DOMAIN attendance :
        ~(attendance[i].kind = "Some" /\ attendance[i].submission.type = "PullRequest")

C30_Step ==
    \A s \in DOMAIN sprints : \A a \in DOMAIN sprints[s] :
        (module.sprints[s].assignments[a].type = "Attendance" /\ s \in DOMAIN sprints')
            => sprints'[s][a] = sprints[s][a]

C30_Slots ==
    NoPrInAttendance =>
        \A sa \in Slots :
            HoldsSomePr(sa) =>
                /\ AssignmentAt(sa).type = "ExpectedPullRequest"
                /\ sprints[sa[1]][sa[2]].submission.optionality = AssignmentAt(sa).optionality
                /\ sprints[sa[1]][sa[2]].submission.optionality \in {"Mandatory", "Stretch"}

\* C30: when the attendance handed over holds no pull request submission,
\* every slot that holds Some(PullRequest) is the slot of an
\* ExpectedPullRequest assignment and records the optionality of that
\* assignment; and no step of the matching, whatever the pull requests, changes
\* the slot of an Attendance assignment.
C30_PrSlotsAreExpectedPrSlots == []C30_Slots /\ [][C30_Step]_vars

\* C30 witness: after two pull requests a stretch slot and a mandatory slot
\* hold one each, and the attendance slot of the sprint holds the attendance
\* that was handed over.
C30_Witness ==
    /\ result = "Ok"
    /\ Len(prs) = 2
    /\ attendance # <<>>
    /\ \E sa, sb \in Slots :
          /\ sa[1] = 1 /\ sb[1] = 1
          /\ HoldsSomePr(sa) /\ AssignmentAt(sa).optionality = "Stretch"
          /\ sprints[sa[1]][sa[2]].submission.optionality = "Stretch"
          /\ HoldsSomePr(sb) /\ AssignmentAt(sb).optionality = "Mandatory"
          /\ sprints[sb[1]][sb[2]].submission.optionality = "Mandatory"
    /\ AssignmentAt(<<1, 1>>).type = "Attendance"
    /\ sprints[1][1] = attendance[1]

====
